---- MODULE Spec2Model ----
(***************************************************************************)
(* A model of the meshtext glyph mesh generator: the outline builder, the  *)
(* contour triangulation, the mesh assembly, the two glyph caches and the  *)
(* public generation entry points of MeshGenerator.                        *)
(*                                                                         *)
(* Numbers.  An f32 coordinate v is held in fixed point as the integer     *)
(* 8 * v, so that 0.5 is 4 and 1.0 is 8 (Half, One below).  The          *)
(* entries of the linear part of a transformation matrix are whole         *)
(* numbers, its translation column is in fixed point.                      *)
(***************************************************************************)
EXTENDS Integers, Sequences, FiniteSets, TLC

VARIABLES
    cache,          \* MeshGenerator.cache: key -> (vertices, bbox)
    indexed_cache,  \* MeshGenerator.indexed_cache: key -> (indices, vertices, bbox)
    use_cache,      \* MeshGenerator.use_cache
    call,           \* the last public call and its arguments
    result,         \* what the last public call returned
    trace,          \* the glyph loads the last call made, in order
    calls,          \* number of calls made so far, on the generator or the builder
    builder,        \* a GlyphOutlineBuilder the font is drawing a glyph into
    quality,        \* GlyphOutlineBuilder.quality
    font_calls,     \* the calls the font made on the builder, in order
    raster          \* what raster_to_mesh made of the builder's outline

vars == <<cache, indexed_cache, use_cache, call, result, trace, calls,
          builder, quality, font_calls, raster>>

(***************************************************************************)
(* Bounds of the model.                                                    *)
(***************************************************************************)
MaxCalls == 3

MaxText == 2

MaxWideCalls == 2

MaxEvents == 4

(***************************************************************************)
(* Fixed point constants.                                                  *)
(***************************************************************************)
Half == 4

UPPER_Z == Half

LOWER_Z == -Half

One == 2 * Half

\* Option<T>: None is the empty tuple, Some(v) the one-element tuple.
None == <<>>

Some(v) == <<v>>

IsSome(o) == o # <<>>

Unwrap(o) == o[1]

UnwrapOr(o, d) == IF o = <<>> THEN d ELSE o[1]

\* Result<T, E>
Ok(v) == [ok |-> TRUE, val |-> v]

Err(e) == [ok |-> FALSE, err |-> e]

Min(a, b) == IF a <= b THEN a ELSE b

Max(a, b) == IF a >= b THEN a ELSE b

SeqMax(s) == CHOOSE m \in {s[i] : i \in 1..Len(s)} : \A i \in 1..Len(s) : s[i] <= m

RECURSIVE Flatten(_)
Flatten(ss) == IF ss = <<>> THEN <<>> ELSE Head(ss) \o Flatten(Tail(ss))

\* let v = ...; body: the value is computed once and named in `body`.
Let(v, body(_)) == body(v)

(***************************************************************************)
(* The font face (the external capability behind the FontFace trait).      *)
(* Three characters have a glyph: "A" (a closed triangle), " " (a glyph    *)
(* without outline) and "X" (a glyph whose only contour is never closed).  *)
(* Glyph 0 is the font's notdef glyph, a closed square.                    *)
(* Four more characters have a glyph for the calls that look at layout and *)
(* at malformed outlines: "N" (the triangle of "A", no advance reported),  *)
(* "D" (a contour closed right after its move_to, then the triangle), "Y"  *)
(* (the triangle, then a contour that is never closed) and "V" (one edge). *)
(* Every other character, "?" among them, has no glyph index.              *)
(***************************************************************************)
Chars == {"A", " ", "X"}

FontHeight == 4

glyph_index(c) ==
    CASE c = "A" -> Some(1)
      [] c = " " -> Some(2)
      [] c = "X" -> Some(3)
      [] c = "N" -> Some(4)
      [] c = "D" -> Some(5)
      [] c = "Y" -> Some(6)
      [] c = "V" -> Some(7)
      [] c = "I" -> Some(8)
      [] c = "_" -> Some(1)
      [] OTHER -> None

glyph_hor_advance(id) ==
    CASE id = 0 -> Some(4)
      [] id = 1 -> Some(4)
      [] id = 2 -> Some(2)
      [] OTHER -> None

M(x, y) == [t |-> "move_to", p |-> <<x, y>>]

L(x, y) == [t |-> "line_to", p |-> <<x, y>>]

Z == [t |-> "close"]

\* The events outline_glyph sends to the builder, and the tight rectangle
\* it returns (None when the glyph has no outline).
GlyphEvents(id) ==
    CASE id = 0 -> <<M(0, 0), L(4, 0), L(4, 4), L(0, 4), L(0, 0), Z>>
      [] id = 1 -> <<M(0, 0), L(4, 0), L(2, 4), L(0, 0), Z>>
      [] id = 3 -> <<M(0, 0), L(4, 0), L(4, 4)>>
      [] id = 4 -> <<M(0, 0), L(4, 0), L(2, 4), L(0, 0), Z>>
      [] id = 5 -> <<M(0, 0), Z, M(0, 0), L(4, 0), L(2, 4), L(0, 0), Z>>
      [] id = 6 -> <<M(0, 0), L(4, 0), L(2, 4), L(0, 0), Z, M(0, 0), L(4, 4)>>
      [] id = 7 -> <<M(0, 0), L(4, 0)>>
      [] id = 8 -> <<M(0, 0), L(4, 0), L(0, 0), Z>>
      [] OTHER -> <<>>

Rect(x0, y0, x1, y1) == [x_min |-> x0, y_min |-> y0, x_max |-> x1, y_max |-> y1]

GlyphRect(id) ==
    CASE id \in {0, 1, 3, 4, 5, 6, 7, 8} -> Some(Rect(0, 0, 4, 4))
      [] OTHER -> None

\* x as f32 / font_height
Norm(x) == (x * One) \div FontHeight

(***************************************************************************)
(* GlyphOutlineBuilder.                                                    *)
(***************************************************************************)
BuilderNew ==
    [contours |-> <<>>, current_point |-> <<0, 0>>, index |-> 0,
     points |-> <<>>, start_index |-> 0]

\* add_point without the increment of the index counter.
add_point_uncounted(b, point) ==
    [b EXCEPT !.current_point = point,
              !.points = Append(@, <<Norm(point[1]), Norm(point[2])>>)]

add_point(b, point) ==
    [b EXCEPT !.current_point = point,
              !.points = Append(@, <<Norm(point[1]), Norm(point[2])>>),
              !.index = @ + 1]

move_to(b, p) ==
    add_point([b EXCEPT !.start_index = b.index,
                        !.contours = Append(@, <<b.index>>)], p)

line_to(b, p) ==
    add_point([b EXCEPT !.contours[Len(b.contours)] = Append(@, b.index)], p)

\* close without the removal of the duplicate point.
close_keeping_point(b) ==
    LET n == Len(b.contours)
        c == b.contours[n]
        popped == IF c = <<>> THEN c ELSE SubSeq(c, 1, Len(c) - 1)
    IN  [b EXCEPT !.contours[n] = Append(popped, b.start_index)]

\* index is a u32 held by its representative in -2^31..2^31-1: the release
\* build wraps 0 - 1 to 2^32 - 1, which is -1 here, and the next add_point
\* wraps it back to 0.
close(b) ==
    LET n == Len(b.contours)
        c == b.contours[n]
        popped == IF c = <<>> THEN c ELSE SubSeq(c, 1, Len(c) - 1)
    IN  [b EXCEPT !.contours[n] = Append(popped, b.start_index),
                  !.points = IF @ = <<>> THEN @ ELSE SubSeq(@, 1, Len(@) - 1),
                  !.index = @ - 1]

Feed(b, e) ==
    CASE e.t = "move_to" -> move_to(b, e.p)
      [] e.t = "line_to" -> line_to(b, e.p)
      [] e.t = "close" -> close(b)

RECURSIVE FeedAll(_, _)
FeedAll(b, events) ==
    IF events = <<>> THEN b ELSE FeedAll(Feed(b, Head(events)), Tail(events))

get_glyph_outline(b) == [contours |-> b.contours, points |-> b.points]

\* QualitySettings::default()
QualitySettingsDefault ==
    [quad_interpolation_steps |-> 5, cubic_interpolation_steps |-> 3]

\* a - (a - b) * t for t = t[1] / t[2] (the coordinates of the inputs are
\* chosen so that the division is exact).
point_on_line(a, b, t) ==
    <<a[1] - ((a[1] - b[1]) * t[1]) \div t[2],
      a[2] - ((a[2] - b[2]) * t[1]) \div t[2]>>

point_on_quad(p0, p1, p2, t) ==
    point_on_line(point_on_line(p0, p1, t), point_on_line(p1, p2, t), t)

point_on_cubic(p0, p1, p2, p3, t) ==
    point_on_line(point_on_quad(p0, p1, p2, t), point_on_quad(p1, p2, p3, t), t)

\* for step in 1..=steps { p = point_on_quad(&self.current_point, ..);
\* self.line_to(p) }: line_to moves current_point at every step.
RECURSIVE quad_to(_, _, _, _, _)
quad_to(b, steps, step, p1, p2) ==
    IF step > steps THEN b
    ELSE quad_to(line_to(b, point_on_quad(b.current_point, p1, p2, <<step, steps>>)),
                 steps, step + 1, p1, p2)

RECURSIVE curve_to(_, _, _, _, _, _)
curve_to(b, steps, step, p1, p2, p3) ==
    IF step > steps THEN b
    ELSE curve_to(line_to(b, point_on_cubic(b.current_point, p1, p2, p3,
                                            <<step, steps>>)),
                  steps, step + 1, p1, p2, p3)

(***************************************************************************)
(* Contour triangulation.                                                  *)
(***************************************************************************)
\* The edges of one contour: c.iter().zip(c.iter().skip(1))
ContourEdges(c) == [i \in 1..(Len(c) - 1) |-> <<c[i], c[i + 1]>>]

\* The external constrained Delaunay triangulation, an opaque function of
\* the point cloud and the edges: here a fan over the points, and a failure
\* for fewer than three points.
constrained_triangulation(points, edges) ==
    IF Len(points) < 3
    THEN Err("GlyphTriangulationError")
    ELSE Ok([i \in 1..(Len(points) - 2) |-> <<0, i, i + 1>>])

\* IsOpen without the comparison: every contour passes for closed.
IsOpen_never(c) == FALSE

IsOpen(c) ==
    LET e == ContourEdges(c) IN e # <<>> /\ e[1][1] # e[Len(e)][2]

get_glyph_area_triangulation(outline) ==
    Let(Flatten([k \in 1..Len(outline.contours) |->
                    ContourEdges(outline.contours[k])]),
        LAMBDA edges :
            IF \E k \in 1..Len(outline.contours) : IsOpen(outline.contours[k])
            THEN Err("GlyphTriangulationError: Open contour.")
            ELSE Let(constrained_triangulation(outline.points, edges),
                     LAMBDA t : IF t.ok
                                THEN Ok([triangles |-> t.val, edges |-> edges])
                                ELSE t))

(***************************************************************************)
(* Mesh assembly.                                                          *)
(***************************************************************************)
Vec3(p, z) == <<p[1], p[2], z>>

\* points[i as usize], the indices being 0-based
At(points, i) == points[i + 1]

\* triangulate_between_edges with the first triangle of every wall only.
triangulate_between_edges_half_walls(points, edges) ==
    Flatten([k \in 1..Len(edges) |->
        LET a == At(points, edges[k][1])
            b == At(points, edges[k][2])
        IN  <<Vec3(a, UPPER_Z), Vec3(b, UPPER_Z), Vec3(a, LOWER_Z)>>])

triangulate_between_edges(points, edges) ==
    Flatten([k \in 1..Len(edges) |->
        LET a == At(points, edges[k][1])
            b == At(points, edges[k][2])
        IN  <<Vec3(a, UPPER_Z), Vec3(b, UPPER_Z), Vec3(a, LOWER_Z),
              Vec3(b, LOWER_Z), Vec3(a, LOWER_Z), Vec3(b, UPPER_Z)>>])

\* triangulate_between_edges_indexed with vertices.len() as the offset of
\* the lower layer, in place of half of it.
triangulate_between_edges_indexed_full_count(vertices, edges) ==
    LET flat_count == Len(vertices)
    IN  Flatten([k \in 1..Len(edges) |->
            LET e0 == edges[k][1]
                e1 == edges[k][2]
            IN  <<e0, e1, flat_count + e1, flat_count + e0, e0, flat_count + e1>>])

\* triangulate_between_edges_indexed with the walls split along the diagonal
\* triangulate_between_edges uses.
triangulate_between_edges_indexed_same_diagonal(vertices, edges) ==
    LET flat_count == Len(vertices) \div 2
    IN  Flatten([k \in 1..Len(edges) |->
            LET e0 == edges[k][1]
                e1 == edges[k][2]
            IN  <<e0, e1, flat_count + e0, flat_count + e1, flat_count + e0, e1>>])

triangulate_between_edges_indexed(vertices, edges) ==
    LET flat_count == Len(vertices) \div 2
    IN  Flatten([k \in 1..Len(edges) |->
            LET e0 == edges[k][1]
                e1 == edges[k][2]
            IN  <<e0, e1, flat_count + e1, flat_count + e0, e0, flat_count + e1>>])

raster_to_mesh(outline, flat) ==
    Let(get_glyph_area_triangulation(outline), LAMBDA t :
        IF ~t.ok THEN t
        ELSE IF flat
        THEN Ok(Flatten([k \in 1..Len(t.val.triangles) |->
                 <<Vec3(At(outline.points, t.val.triangles[k][1]), 0),
                   Vec3(At(outline.points, t.val.triangles[k][2]), 0),
                   Vec3(At(outline.points, t.val.triangles[k][3]), 0)>>]))
        ELSE Ok(Flatten([k \in 1..Len(t.val.triangles) |->
                 <<Vec3(At(outline.points, t.val.triangles[k][1]), UPPER_Z),
                   Vec3(At(outline.points, t.val.triangles[k][2]), UPPER_Z),
                   Vec3(At(outline.points, t.val.triangles[k][3]), UPPER_Z),
                   Vec3(At(outline.points, t.val.triangles[k][3]), LOWER_Z),
                   Vec3(At(outline.points, t.val.triangles[k][2]), LOWER_Z),
                   Vec3(At(outline.points, t.val.triangles[k][1]), LOWER_Z)>>])
                \o triangulate_between_edges(outline.points, t.val.edges)))

\* IndexedVertices with the lower layer first.
IndexedVertices_lower_first(points, flat) ==
    IF flat THEN [k \in 1..Len(points) |-> Vec3(points[k], 0)]
    ELSE [k \in 1..Len(points) |-> Vec3(points[k], LOWER_Z)]
         \o [k \in 1..Len(points) |-> Vec3(points[k], UPPER_Z)]

\* The vertices of the indexed mesh: the points once (flat), or once at
\* UPPER_Z and once more at LOWER_Z.
IndexedVertices(points, flat) ==
    IF flat THEN [k \in 1..Len(points) |-> Vec3(points[k], 0)]
    ELSE [k \in 1..Len(points) |-> Vec3(points[k], UPPER_Z)]
         \o [k \in 1..Len(points) |-> Vec3(points[k], LOWER_Z)]

raster_to_mesh_indexed(outline, flat) ==
    Let(get_glyph_area_triangulation(outline), LAMBDA t :
        IF ~t.ok THEN t
        ELSE Let(IndexedVertices(outline.points, flat), LAMBDA vertices :
            IF flat
            THEN Ok([vertices |-> vertices,
                     indices |-> Flatten([k \in 1..Len(t.val.triangles) |->
                                    <<t.val.triangles[k][1], t.val.triangles[k][2],
                                      t.val.triangles[k][3]>>])])
            ELSE Ok([vertices |-> vertices,
                     indices |->
                         Flatten([k \in 1..Len(t.val.triangles) |->
                             <<t.val.triangles[k][1], t.val.triangles[k][2],
                               t.val.triangles[k][3],
                               t.val.triangles[k][3] + Len(outline.points),
                               t.val.triangles[k][2] + Len(outline.points),
                               t.val.triangles[k][1] + Len(outline.points)>>])
                         \o triangulate_between_edges_indexed(
                                vertices, t.val.edges)])))

(***************************************************************************)
(* BoundingBox and the matrices.  A Mat4 is its four columns, each a       *)
(* 4-tuple; a Mat3 its three columns, each a 3-tuple.                      *)
(***************************************************************************)
BoundingBox(min, max) == [max |-> max, min |-> min]

BoundingBoxEmpty == BoundingBox(<<0, 0, 0>>, <<0, 0, 0>>)

combine(a, b) ==
    BoundingBox([i \in 1..3 |-> Min(a.min[i], b.min[i])],
                [i \in 1..3 |-> Max(a.max[i], b.max[i])])

Mat4Identity == <<<<1, 0, 0, 0>>, <<0, 1, 0, 0>>, <<0, 0, 1, 0>>, <<0, 0, 0, 1>>>>

Mat3Identity == <<<<1, 0, 0>>, <<0, 1, 0>>, <<0, 0, 1>>>>

\* Mat4::from_cols_array of a column-major [f32; 16]
Mat4FromColsArray(a) == [c \in 1..4 |-> [r \in 1..4 |-> a[4 * (c - 1) + r]]]

Mat3FromColsArray(a) == [c \in 1..3 |-> [r \in 1..3 |-> a[3 * (c - 1) + r]]]

Mat4FromTranslation(x, y, z) ==
    <<<<1, 0, 0, 0>>, <<0, 1, 0, 0>>, <<0, 0, 1, 0>>, <<x, y, z, 1>>>>

Mat3FromTranslation(x, y) == <<<<1, 0, 0>>, <<0, 1, 0>>, <<x, y, 1>>>>

\* a * b for two Mat4: column c of the product is a applied to column c of b
Mat4Mul(a, b) ==
    [c \in 1..4 |-> [r \in 1..4 |->
        a[1][r] * b[c][1] + a[2][r] * b[c][2] + a[3][r] * b[c][3] + a[4][r] * b[c][4]]]

Mat3Mul(a, b) ==
    [c \in 1..3 |-> [r \in 1..3 |->
        a[1][r] * b[c][1] + a[2][r] * b[c][2] + a[3][r] * b[c][3]]]

transform_point3a(m, v) ==
    [r \in 1..3 |-> m[1][r] * v[1] + m[2][r] * v[2] + m[3][r] * v[3] + m[4][r]]

transform_point2(m, v) ==
    [r \in 1..2 |-> m[1][r] * v[1] + m[2][r] * v[2] + m[3][r]]

BBoxTransform(b, m) ==
    BoundingBox(transform_point3a(m, b.min), transform_point3a(m, b.max))

BBoxTransform2d(b, m) ==
    LET min == transform_point2(m, <<b.min[1], b.min[2]>>)
        max == transform_point2(m, <<b.max[1], b.max[2]>>)
    IN  BoundingBox(<<min[1], min[2], 0>>, <<max[1], max[2], 0>>)

(***************************************************************************)
(* Conversions between the raw f32 buffers and the vectors.                *)
(***************************************************************************)
\* raw.chunks(3) and raw.chunks(2): indexing a short last chunk panics.
glam_vecs_from_raw(raw) ==
    IF Len(raw) % 3 # 0 THEN Err("panic")
    ELSE Ok([k \in 1..(Len(raw) \div 3) |->
                <<raw[3 * k - 2], raw[3 * k - 1], raw[3 * k]>>])

glam_3d_vecs_from_raw_2d(raw) ==
    IF Len(raw) % 2 # 0 THEN Err("panic")
    ELSE Ok([k \in 1..(Len(raw) \div 2) |-> <<raw[2 * k - 1], raw[2 * k], 0>>])

glam_vecs_to_raw(vecs) ==
    Flatten([k \in 1..Len(vecs) |-> <<vecs[k][1], vecs[k][2], vecs[k][3]>>])

glam_vecs_to_raw_2d(vecs) ==
    Flatten([k \in 1..Len(vecs) |-> <<vecs[k][1], vecs[k][2]>>])

make_flat_bbox(b) ==
    BoundingBox(<<b.min[1], b.min[2], 0>>, <<b.max[1], b.max[2], 0>>)

mesh_to_flat_2d(m) ==
    [vertices |-> [k \in 1..Len(m.vertices) |-> <<m.vertices[k][1], m.vertices[k][2]>>],
     bbox |-> make_flat_bbox(m.bbox)]

mesh_to_indexed_flat_2d(m) ==
    [indices |-> m.indices,
     vertices |-> [k \in 1..Len(m.vertices) |-> <<m.vertices[k][1], m.vertices[k][2]>>],
     bbox |-> make_flat_bbox(m.bbox)]

text_mesh_from_data(m) ==
    [bbox |-> m.bbox, vertices |-> glam_vecs_to_raw(m.vertices)]

text_mesh_from_data_2d(m) ==
    [bbox |-> m.bbox, vertices |-> glam_vecs_to_raw_2d(m.vertices)]

text_mesh_from_data_indexed(m) ==
    [bbox |-> m.bbox, indices |-> m.indices, vertices |-> glam_vecs_to_raw(m.vertices)]

text_mesh_from_data_indexed_2d(m) ==
    [bbox |-> m.bbox, indices |-> m.indices, vertices |-> glam_vecs_to_raw_2d(m.vertices)]

(***************************************************************************)
(* MeshGenerator.  The operators below take the generator's mutable state  *)
(* g = [cache, indexed_cache, trace] and return the new state with the     *)
(* value returned: [g |-> ..., r |-> Ok(..) or Err(..)].  trace is the     *)
(* list of glyph loads made, each with how it was served.                  *)
(***************************************************************************)
\* glyph.to_string() and format!("_{}", glyph), as character sequences
\* Key without the marker of the extruded glyphs.
Key_unmarked(glyph, flat) == <<glyph>>

Key(glyph, flat) == IF flat THEN <<glyph>> ELSE <<"_", glyph>>

Insert(map, key, value) == (key :> value) @@ map

Traced(g, glyph, flat, indexed, how) ==
    [g EXCEPT !.trace = Append(@, [glyph |-> glyph, flat |-> flat,
                                   indexed |-> indexed, how |-> how])]

\* glyph_id_of_char with unwrap_or(GlyphId(1)): the glyph of "A" stands in
\* for a missing one.
glyph_id_of_char_first(glyph) == UnwrapOr(glyph_index(glyph), 1)

glyph_id_of_char(glyph) == UnwrapOr(glyph_index(glyph), 0)

\* self.font.outline_glyph(glyph_index, &mut builder)
outline_glyph(id) ==
    [rect |-> GlyphRect(id), builder |-> FeedAll(BuilderNew, GlyphEvents(id))]

\* RectBBox without the `if flat`: the depth is used for flat glyphs too.
RectBBox_with_depth(rect, flat, depth) ==
    [max |-> <<Norm(rect.x_max), Norm(rect.y_max), depth[1]>>,
     min |-> <<Norm(rect.x_min), Norm(rect.y_min), depth[2]>>]

\* The bounding box built from the font's rectangle.
RectBBox(rect, flat, depth) ==
    [max |-> <<Norm(rect.x_max), Norm(rect.y_max), IF flat THEN 0 ELSE depth[1]>>,
     min |-> <<Norm(rect.x_min), Norm(rect.y_min), IF flat THEN 0 ELSE depth[2]>>]

\* The font never changes: what the builder and the mesh assembly make of
\* each of its glyphs is tabulated once.
GlyphIds == 0..8

Outlined == [id \in GlyphIds |-> outline_glyph(id)]

Rastered ==
    [id \in GlyphIds |-> [flat \in BOOLEAN |->
        raster_to_mesh(get_glyph_outline(Outlined[id].builder), flat)]]

RasteredIndexed ==
    [id \in GlyphIds |-> [flat \in BOOLEAN |->
        raster_to_mesh_indexed(get_glyph_outline(Outlined[id].builder), flat)]]

\* BBoxOfGlyph with the depth (0.5, -0.5) for every glyph, with or without
\* an outline.
BBoxOfGlyph_always_deep(rect, flat) ==
    IF IsSome(rect) THEN RectBBox(Unwrap(rect), flat, <<Half, -Half>>)
    ELSE RectBBox(Rect(0, 0, 0, 0), flat, <<Half, -Half>>)

\* The depth of a glyph with an outline is (0.5, -0.5), of one without (0, 0);
\* a glyph without an outline has the rectangle 0 0 0 0.
BBoxOfGlyph(rect, flat) ==
    IF IsSome(rect) THEN RectBBox(Unwrap(rect), flat, <<Half, -Half>>)
    ELSE RectBBox(Rect(0, 0, 0, 0), flat, <<0, 0>>)

\* insert_into_cache with glyph.to_string() as the key of both branches: the
\* extruded glyph is stored under the key of the flat one.
insert_into_cache_one_key(g, glyph, flat) ==
    Let(glyph_id_of_char(glyph), LAMBDA id :
    Let(Outlined[id].rect, LAMBDA rect :
    Let(IF IsSome(rect) THEN Rastered[id][flat] ELSE Ok(<<>>), LAMBDA m :
        IF ~m.ok
        THEN [g |-> Traced(g, glyph, flat, FALSE, "failed"), r |-> m]
        ELSE Let([vertices |-> m.val, bbox |-> BBoxOfGlyph(rect, flat)],
                 LAMBDA entry :
                     [g |-> [Traced(g, glyph, flat, FALSE, "computed")
                                EXCEPT !.cache = Insert(@, Key(glyph, TRUE), entry)],
                      r |-> Ok(entry)]))))

\* insert_into_cache storing an empty mesh for a glyph that failed.
insert_into_cache_caching_failures(g, glyph, flat) ==
    Let(glyph_id_of_char(glyph), LAMBDA id :
    Let(Outlined[id].rect, LAMBDA rect :
    Let(IF IsSome(rect) THEN Rastered[id][flat] ELSE Ok(<<>>), LAMBDA m :
        IF ~m.ok
        THEN [g |-> [Traced(g, glyph, flat, FALSE, "failed")
                        EXCEPT !.cache =
                            Insert(@, Key(glyph, flat),
                                   [vertices |-> <<>>, bbox |-> BoundingBoxEmpty])],
              r |-> m]
        ELSE Let([vertices |-> m.val, bbox |-> BBoxOfGlyph(rect, flat)],
                 LAMBDA entry :
                     [g |-> [Traced(g, glyph, flat, FALSE, "computed")
                                EXCEPT !.cache = Insert(@, Key(glyph, flat), entry)],
                      r |-> Ok(entry)]))))

insert_into_cache(g, glyph, flat) ==
    Let(glyph_id_of_char(glyph), LAMBDA id :
    Let(Outlined[id].rect, LAMBDA rect :
    Let(IF IsSome(rect) THEN Rastered[id][flat] ELSE Ok(<<>>), LAMBDA m :
        IF ~m.ok
        THEN [g |-> Traced(g, glyph, flat, FALSE, "failed"), r |-> m]
        ELSE Let([vertices |-> m.val, bbox |-> BBoxOfGlyph(rect, flat)],
                 LAMBDA entry :
                     [g |-> [Traced(g, glyph, flat, FALSE, "computed")
                                EXCEPT !.cache = Insert(@, Key(glyph, flat), entry)],
                      r |-> Ok(entry)]))))

insert_into_cache_indexed(g, glyph, flat) ==
    Let(glyph_id_of_char(glyph), LAMBDA id :
    Let(Outlined[id].rect, LAMBDA rect :
    Let(IF IsSome(rect) THEN RasteredIndexed[id][flat]
        ELSE Ok([vertices |-> <<>>, indices |-> <<>>]), LAMBDA m :
        IF ~m.ok
        THEN [g |-> Traced(g, glyph, flat, TRUE, "failed"), r |-> m]
        ELSE Let([indices |-> m.val.indices, vertices |-> m.val.vertices,
                  bbox |-> BBoxOfGlyph(rect, flat)],
                 LAMBDA entry :
                     [g |-> [Traced(g, glyph, flat, TRUE, "computed")
                                EXCEPT !.indexed_cache =
                                    Insert(@, Key(glyph, flat), entry)],
                      r |-> Ok(entry)]))))

load_from_cache(g, glyph, flat) ==
    IF Key(glyph, flat) \in DOMAIN g.cache
    THEN [g |-> Traced(g, glyph, flat, FALSE, "hit"),
          r |-> Ok(g.cache[Key(glyph, flat)])]
    ELSE insert_into_cache(g, glyph, flat)

load_from_cache_indexed(g, glyph, flat) ==
    IF Key(glyph, flat) \in DOMAIN g.indexed_cache
    THEN [g |-> Traced(g, glyph, flat, TRUE, "hit"),
          r |-> Ok(g.indexed_cache[Key(glyph, flat)])]
    ELSE insert_into_cache_indexed(g, glyph, flat)

\* for v in mesh.iter_mut() { *v = transform.transform_point3a(*v) }
Moved(vertices, m) == [k \in 1..Len(vertices) |-> transform_point3a(m, vertices[k])]

Moved2d(vertices, m) == [k \in 1..Len(vertices) |-> transform_point2(m, vertices[k])]

\* The value of a load with `f` applied to a loaded mesh (the ? operator
\* returns a failed load as it is).
Then(l, f(_)) == IF l.r.ok THEN [g |-> l.g, r |-> Ok(f(l.r.val))] ELSE l

generate_glyph_with_glam_transform(g, glyph, flat, transform) ==
    LET f(mesh) == [vertices |-> Moved(mesh.vertices, transform),
                    bbox |-> BBoxTransform(mesh.bbox, transform)]
    IN  Then(load_from_cache(g, glyph, flat), f)

generate_glyph_with_glam_transform_2d(g, glyph, transform) ==
    LET f(mesh) == LET m2 == mesh_to_flat_2d(mesh)
                   IN  [vertices |-> Moved2d(m2.vertices, transform),
                        bbox |-> BBoxTransform2d(m2.bbox, transform)]
    IN  Then(load_from_cache(g, glyph, TRUE), f)

generate_glyph_with_glam_transform_indexed(g, glyph, flat, transform) ==
    LET f(mesh) == [indices |-> mesh.indices,
                    vertices |-> Moved(mesh.vertices, transform),
                    bbox |-> BBoxTransform(mesh.bbox, transform)]
    IN  Then(load_from_cache_indexed(g, glyph, flat), f)

generate_glyph_with_glam_transform_indexed_2d(g, glyph, transform) ==
    LET f(mesh) == LET m2 == mesh_to_indexed_flat_2d(mesh)
                   IN  [indices |-> m2.indices,
                        vertices |-> Moved2d(m2.vertices, transform),
                        bbox |-> BBoxTransform2d(m2.bbox, transform)]
    IN  Then(load_from_cache_indexed(g, glyph, TRUE), f)

\* generate_glyph transforming the vertices of the map's entry in place
\* (a reference in place of the clone that load_from_cache returns).
generate_glyph_in_place(g, glyph, flat, transform) ==
    Let(load_from_cache(g, glyph, flat), LAMBDA l :
        IF ~l.r.ok \/ ~IsSome(transform)
        THEN Then(l, text_mesh_from_data)
        ELSE Let([vertices |-> Moved(l.r.val.vertices,
                                     Mat4FromColsArray(Unwrap(transform))),
                  bbox |-> BBoxTransform(l.r.val.bbox,
                                         Mat4FromColsArray(Unwrap(transform)))],
                 LAMBDA mesh :
                     [g |-> [l.g EXCEPT !.cache = Insert(@, Key(glyph, flat), mesh)],
                      r |-> Ok(text_mesh_from_data(mesh))]))

generate_glyph(g, glyph, flat, transform) ==
    LET f(mesh) ==
            text_mesh_from_data(
                IF IsSome(transform)
                THEN [vertices |-> Moved(mesh.vertices,
                                         Mat4FromColsArray(Unwrap(transform))),
                      bbox |-> BBoxTransform(mesh.bbox,
                                             Mat4FromColsArray(Unwrap(transform)))]
                ELSE mesh)
    IN  Then(load_from_cache(g, glyph, flat), f)

generate_glyph_2d(g, glyph, transform) ==
    LET f(mesh) ==
            LET m2 == mesh_to_flat_2d(mesh) IN
            text_mesh_from_data_2d(
                IF IsSome(transform)
                THEN [vertices |-> Moved2d(m2.vertices,
                                           Mat3FromColsArray(Unwrap(transform))),
                      bbox |-> BBoxTransform2d(m2.bbox,
                                               Mat3FromColsArray(Unwrap(transform)))]
                ELSE m2)
    IN  Then(load_from_cache(g, glyph, TRUE), f)

generate_glyph_indexed(g, glyph, flat, transform) ==
    LET f(mesh) ==
            text_mesh_from_data_indexed(
                IF IsSome(transform)
                THEN [indices |-> mesh.indices,
                      vertices |-> Moved(mesh.vertices,
                                         Mat4FromColsArray(Unwrap(transform))),
                      bbox |-> BBoxTransform(mesh.bbox,
                                             Mat4FromColsArray(Unwrap(transform)))]
                ELSE mesh)
    IN  Then(load_from_cache_indexed(g, glyph, flat), f)

generate_glyph_indexed_2d(g, glyph, transform) ==
    LET f(mesh) ==
            LET m2 == mesh_to_indexed_flat_2d(mesh) IN
            text_mesh_from_data_indexed_2d(
                IF IsSome(transform)
                THEN [indices |-> m2.indices,
                      vertices |-> Moved2d(m2.vertices,
                                           Mat3FromColsArray(Unwrap(transform))),
                      bbox |-> BBoxTransform2d(m2.bbox,
                                               Mat3FromColsArray(Unwrap(transform)))]
                ELSE m2)
    IN  Then(load_from_cache_indexed(g, glyph, TRUE), f)

\* glyph_hor_advance(..).unwrap_or(0) as f32 / font.height() as f32
x_advance_of(glyph) ==
    Norm(UnwrapOr(glyph_hor_advance(glyph_id_of_char(glyph)), 0))

\* The running state of a text section: the generator, the mesh so far, the
\* pen position, the index offset and the error that ended it, if any.
SectionStart(g, mesh) ==
    [g |-> g, mesh |-> mesh, overall_advance |-> 0, index_offset |-> 0, err |-> None]

\* The indices of a glyph after "Offset indices" (not done for the first
\* character) and the index offset after "Update index offset".
OffsetIndices(indices, index_offset, first) ==
    IF first THEN indices
    ELSE [k \in 1..Len(indices) |-> indices[k] + index_offset]

\* NextOffset starting again from 0 after a glyph without indices.
NextOffset_reset(indices, index_offset) ==
    IF indices = <<>> THEN 0 ELSE SeqMax(indices) + 1

NextOffset(indices, index_offset) ==
    IF indices = <<>> THEN index_offset ELSE SeqMax(indices) + 1

\* Extend without the ?: a failed glyph is left out and the loop goes on.
Extend_skipping_failures(st, glyph, first, l) ==
    IF ~l.r.ok
    THEN [st EXCEPT !.g = l.g]
    ELSE [st EXCEPT
            !.g = l.g,
            !.mesh = [vertices |-> st.mesh.vertices \o l.r.val.vertices,
                      bbox |-> IF first THEN l.r.val.bbox
                               ELSE combine(st.mesh.bbox, l.r.val.bbox)],
            !.overall_advance = @ + x_advance_of(glyph)]

\* Extend with the vertices of the glyph put in front of those of the
\* section so far.
Extend_prepending(st, glyph, first, l) ==
    IF ~l.r.ok
    THEN [st EXCEPT !.g = l.g, !.err = Some(l.r)]
    ELSE [st EXCEPT
            !.g = l.g,
            !.mesh = [vertices |-> l.r.val.vertices \o st.mesh.vertices,
                      bbox |-> IF first THEN l.r.val.bbox
                               ELSE combine(st.mesh.bbox, l.r.val.bbox)],
            !.overall_advance = @ + x_advance_of(glyph)]

\* The body of the loop of the non-indexed sections, `l` being what the
\* generation of the glyph returned.
Extend(st, glyph, first, l) ==
    IF ~l.r.ok
    THEN [st EXCEPT !.g = l.g, !.err = Some(l.r)]
    ELSE [st EXCEPT
            !.g = l.g,
            !.mesh = [vertices |-> st.mesh.vertices \o l.r.val.vertices,
                      bbox |-> IF first THEN l.r.val.bbox
                               ELSE combine(st.mesh.bbox, l.r.val.bbox)],
            !.overall_advance = @ + x_advance_of(glyph)]

\* The body of the loop of the indexed sections.
ExtendIndexed(st, glyph, first, l) ==
    IF ~l.r.ok
    THEN [st EXCEPT !.g = l.g, !.err = Some(l.r)]
    ELSE Let(OffsetIndices(l.r.val.indices, st.index_offset, first),
             LAMBDA indices :
                 [st EXCEPT
                    !.g = l.g,
                    !.index_offset = NextOffset(indices, @),
                    !.mesh = [indices |-> st.mesh.indices \o indices,
                              vertices |-> st.mesh.vertices \o l.r.val.vertices,
                              bbox |-> IF first THEN l.r.val.bbox
                                       ELSE combine(st.mesh.bbox, l.r.val.bbox)],
                    !.overall_advance = @ + x_advance_of(glyph)])

\* section_step with the product the other way round: the translation
\* applied after the base transform.
section_step_translating_last(st, glyph, flat, base, first) ==
    Extend(st, glyph, first,
           generate_glyph_with_glam_transform(
               st.g, glyph, flat,
               Mat4Mul(Mat4FromTranslation(st.overall_advance, 0, 0), base)))

\* One character of generate_text_section.
section_step(st, glyph, flat, base, first) ==
    Extend(st, glyph, first,
           generate_glyph_with_glam_transform(
               st.g, glyph, flat,
               Mat4Mul(base, Mat4FromTranslation(st.overall_advance, 0, 0))))

\* One character of generate_text_section_2d.
section_step_2d(st, glyph, flat, base, first) ==
    Extend(st, glyph, first,
           generate_glyph_with_glam_transform_2d(
               st.g, glyph,
               Mat3Mul(base, Mat3FromTranslation(st.overall_advance, 0))))

\* One character of generate_text_section_indexed.
section_step_indexed(st, glyph, flat, base, first) ==
    ExtendIndexed(st, glyph, first,
                  generate_glyph_with_glam_transform_indexed(
                      st.g, glyph, flat,
                      Mat4Mul(base, Mat4FromTranslation(st.overall_advance, 0, 0))))

\* One character of generate_text_section_indexed_2d.
section_step_indexed_2d(st, glyph, flat, base, first) ==
    ExtendIndexed(st, glyph, first,
                  generate_glyph_with_glam_transform_indexed_2d(
                      st.g, glyph,
                      Mat3Mul(base, Mat3FromTranslation(st.overall_advance, 0))))

\* The characters of the text in order; the ? operator leaves at the first
\* failing one.
RECURSIVE SectionLoop(_, _, _, _, _, _)
SectionLoop(step(_, _, _, _, _), st, text, i, flat, base) ==
    IF i > Len(text) \/ IsSome(st.err) THEN st
    ELSE SectionLoop(step, step(st, text[i], flat, base, i = 1), text, i + 1, flat, base)

SectionResult(st, out(_)) ==
    [g |-> st.g, r |-> IF IsSome(st.err) THEN Unwrap(st.err) ELSE Ok(out(st.mesh))]

generate_text_section(g, text, flat, transform) ==
    LET base == IF IsSome(transform) THEN Mat4FromColsArray(Unwrap(transform))
                ELSE Mat4Identity
        start == SectionStart(g, [vertices |-> <<>>, bbox |-> BoundingBoxEmpty])
    IN  SectionResult(SectionLoop(section_step, start, text, 1, flat, base),
                      text_mesh_from_data)

generate_text_section_2d(g, text, transform) ==
    LET base == IF IsSome(transform) THEN Mat3FromColsArray(Unwrap(transform))
                ELSE Mat3Identity
        start == SectionStart(g, [vertices |-> <<>>, bbox |-> BoundingBoxEmpty])
    IN  SectionResult(SectionLoop(section_step_2d, start, text, 1, TRUE, base),
                      text_mesh_from_data_2d)

generate_text_section_indexed(g, text, flat, transform) ==
    LET base == IF IsSome(transform) THEN Mat4FromColsArray(Unwrap(transform))
                ELSE Mat4Identity
        start == SectionStart(g, [indices |-> <<>>, vertices |-> <<>>,
                                  bbox |-> BoundingBoxEmpty])
    IN  SectionResult(SectionLoop(section_step_indexed, start, text, 1, flat, base),
                      text_mesh_from_data_indexed)

generate_text_section_indexed_2d(g, text, transform) ==
    LET base == IF IsSome(transform) THEN Mat3FromColsArray(Unwrap(transform))
                ELSE Mat3Identity
        start == SectionStart(g, [indices |-> <<>>, vertices |-> <<>>,
                                  bbox |-> BoundingBoxEmpty])
    IN  SectionResult(SectionLoop(section_step_indexed_2d, start, text, 1, TRUE, base),
                      text_mesh_from_data_indexed_2d)

\* for c in glyphs.chars() { self.generate_glyph(c, flat, None)?; }
RECURSIVE PrecacheLoop(_, _, _, _, _)
PrecacheLoop(g, glyphs, i, flat, indexed) ==
    IF i > Len(glyphs) THEN [g |-> g, r |-> Ok("unit")]
    ELSE Let(IF indexed THEN generate_glyph_indexed(g, glyphs[i], flat, None)
             ELSE generate_glyph(g, glyphs[i], flat, None),
             LAMBDA l : IF ~l.r.ok THEN l
                        ELSE PrecacheLoop(l.g, glyphs, i + 1, flat, indexed))

\* precache_glyphs without the second loop of the None selector: only the
\* non-indexed map is filled.
precache_glyphs_first_loop_only(g, glyphs, flat, cache_type) ==
    PrecacheLoop(g, glyphs, 1, flat, cache_type = Some("Indexed"))

\* precache_glyphs without the ? of the first loop of the None selector: the
\* indexed loop runs after a failure of the non-indexed one.
precache_glyphs_unchecked(g, glyphs, flat, cache_type) ==
    IF IsSome(cache_type)
    THEN PrecacheLoop(g, glyphs, 1, flat, cache_type = Some("Indexed"))
    ELSE PrecacheLoop(PrecacheLoop(g, glyphs, 1, flat, FALSE).g, glyphs, 1, flat, TRUE)

precache_glyphs(g, glyphs, flat, cache_type) ==
    IF IsSome(cache_type)
    THEN PrecacheLoop(g, glyphs, 1, flat, cache_type = Some("Indexed"))
    ELSE Let(PrecacheLoop(g, glyphs, 1, flat, FALSE),
             LAMBDA n : IF ~n.r.ok THEN n
                        ELSE PrecacheLoop(n.g, glyphs, 1, flat, TRUE))

\* precache_custom_glyph with entry(key).or_insert(..) in place of insert: a
\* glyph that is present in the map is kept.
precache_custom_glyph_keeping(g, glyph, flat, mesh) ==
    Let(IF flat THEN glam_3d_vecs_from_raw_2d(mesh.vertices)
        ELSE glam_vecs_from_raw(mesh.vertices),
        LAMBDA vecs :
            IF ~vecs.ok THEN [g |-> g, r |-> vecs]
            ELSE IF IsSome(mesh.indices)
            THEN [g |-> [g EXCEPT !.indexed_cache =
                            @ @@ (Key(glyph, flat) :>
                                   [indices |-> Unwrap(mesh.indices),
                                    vertices |-> vecs.val, bbox |-> mesh.bbox])],
                  r |-> Ok("unit")]
            ELSE [g |-> [g EXCEPT !.cache =
                            @ @@ (Key(glyph, flat) :>
                                   [vertices |-> vecs.val, bbox |-> mesh.bbox])],
                  r |-> Ok("unit")])

\* mesh is a TriangleMesh: [bbox, indices (an Option), vertices (raw f32s)].
\* The arguments of insert are evaluated first: a panic of the conversion
\* leaves the maps as they were.
precache_custom_glyph(g, glyph, flat, mesh) ==
    Let(IF flat THEN glam_3d_vecs_from_raw_2d(mesh.vertices)
        ELSE glam_vecs_from_raw(mesh.vertices),
        LAMBDA vecs :
            IF ~vecs.ok THEN [g |-> g, r |-> vecs]
            ELSE IF IsSome(mesh.indices)
            THEN [g |-> [g EXCEPT !.indexed_cache =
                            Insert(@, Key(glyph, flat),
                                   [indices |-> Unwrap(mesh.indices),
                                    vertices |-> vecs.val, bbox |-> mesh.bbox])],
                  r |-> Ok("unit")]
            ELSE [g |-> [g EXCEPT !.cache =
                            Insert(@, Key(glyph, flat),
                                   [vertices |-> vecs.val, bbox |-> mesh.bbox])],
                  r |-> Ok("unit")])

clear_cache(g) ==
    [g |-> IF g.use_cache THEN [g EXCEPT !.cache = <<>>] ELSE g, r |-> Ok("unit")]

(***************************************************************************)
(* The inputs of the public calls.                                         *)
(***************************************************************************)
\* Twice the size, moved by 1.0 along x (a column-major [f32; 16]).
Scale2Move == <<2, 0, 0, 0, 0, 2, 0, 0, 0, 0, 2, 0, 2 * Half, 0, 0, 1>>

\* The same in the plane (a column-major [f32; 9]).
Scale2Move2d == <<2, 0, 0, 0, 2, 0, 2 * Half, 0, 1>>

Transforms == {None, Some(Scale2Move)}

Transforms2d == {None}

\* The texts of the sections, up to MaxText characters: one that succeeds, one
\* whose first character fails and one that fails in the middle.
AllTexts == {<<>>, <<"A">>, <<"A", "A">>, <<"X", "A">>, <<"A", "X", "A">>}

Texts == {text \in AllTexts : Len(text) <= MaxText}

\* The character strings given to precache_glyphs.
GlyphStrings == {<<"A", " ">>, <<"A", "X">>}

\* The characters given a hand-made mesh.
CustomChars == {"A"}

CacheTypes == {None, Some("Normal"), Some("Indexed")}

\* Hand-made meshes for precache_custom_glyph, one without and one with
\* indices.  Both buffers divide by 2 and by 3.
CustomPlain ==
    [bbox |-> BoundingBox(<<0, 0, 0>>, <<One, One, One>>), indices |-> None,
     vertices |-> <<0, 0, One, One, 0, One>>]

CustomIndexed ==
    [bbox |-> BoundingBox(<<0, 0, 0>>, <<One, One, One>>),
     indices |-> Some(<<0, 1, 0>>),
     vertices |-> <<0, 0, One, One, 0, One, Half, Half, Half, 0, 0, Half>>]

CustomMeshes == {CustomPlain, CustomIndexed}

(***************************************************************************)
(* The state machine: one action per public call.                          *)
(***************************************************************************)
G == [cache |-> cache, indexed_cache |-> indexed_cache, use_cache |-> use_cache,
      trace |-> <<>>]

CallRec(op) ==
    [op |-> op, glyph |-> "", text |-> <<>>, flat |-> FALSE, indexed |-> FALSE,
     transform |-> None, cache_type |-> None, mesh |-> None]

\* The call `c` was made and returned `out`.
Returned(c, out) ==
    /\ calls < MaxCalls
    /\ calls' = calls + 1
    /\ call' = c
    /\ \E o \in {out} :
           /\ result' = o.r
           /\ cache' = o.g.cache
           /\ indexed_cache' = o.g.indexed_cache
           /\ trace' = o.g.trace
    /\ UNCHANGED <<use_cache, builder, quality, font_calls, raster>>

\* MeshGenerator::new
Init ==
    /\ cache = <<>>
    /\ indexed_cache = <<>>
    /\ use_cache = TRUE
    /\ call = CallRec("new")
    /\ result = Ok("unit")
    /\ trace = <<>>
    /\ calls = 0
    /\ builder = BuilderNew
    /\ quality = QualitySettingsDefault
    /\ font_calls = <<>>
    /\ raster = None

GenerateGlyph ==
    \E glyph \in Chars, flat \in BOOLEAN, indexed \in BOOLEAN, transform \in Transforms :
        Returned([CallRec("generate_glyph") EXCEPT !.glyph = glyph, !.flat = flat,
                      !.indexed = indexed, !.transform = transform],
                 IF indexed THEN generate_glyph_indexed(G, glyph, flat, transform)
                 ELSE generate_glyph(G, glyph, flat, transform))

GenerateGlyph2d ==
    \E glyph \in Chars, indexed \in BOOLEAN, transform \in Transforms2d :
        Returned([CallRec("generate_glyph_2d") EXCEPT !.glyph = glyph, !.flat = TRUE,
                      !.indexed = indexed, !.transform = transform],
                 IF indexed THEN generate_glyph_indexed_2d(G, glyph, transform)
                 ELSE generate_glyph_2d(G, glyph, transform))

GenerateSection ==
    \E text \in Texts, flat \in {FALSE}, indexed \in BOOLEAN :
        Returned([CallRec("generate_section") EXCEPT !.text = text, !.flat = flat,
                      !.indexed = indexed],
                 IF indexed THEN generate_text_section_indexed(G, text, flat, None)
                 ELSE generate_text_section(G, text, flat, None))

GenerateSection2d ==
    \E text \in Texts, indexed \in BOOLEAN :
        Returned([CallRec("generate_section_2d") EXCEPT !.text = text, !.flat = TRUE,
                      !.indexed = indexed],
                 IF indexed THEN generate_text_section_indexed_2d(G, text, None)
                 ELSE generate_text_section_2d(G, text, None))

PrecacheGlyphs ==
    \E glyphs \in GlyphStrings, flat \in BOOLEAN, cache_type \in CacheTypes :
        Returned([CallRec("precache_glyphs") EXCEPT !.text = glyphs, !.flat = flat,
                      !.cache_type = cache_type],
                 precache_glyphs(G, glyphs, flat, cache_type))

PrecacheCustomGlyph ==
    \E glyph \in CustomChars, flat \in BOOLEAN, mesh \in CustomMeshes :
        Returned([CallRec("precache_custom_glyph") EXCEPT !.glyph = glyph,
                      !.flat = flat, !.mesh = Some(mesh)],
                 precache_custom_glyph(G, glyph, flat, mesh))

ClearCache ==
    Returned(CallRec("clear_cache"), clear_cache(G))

Next ==
    \/ GenerateGlyph
    \/ GenerateGlyph2d
    \/ GenerateSection
    \/ GenerateSection2d
    \/ PrecacheGlyphs
    \/ PrecacheCustomGlyph
    \/ ClearCache

Spec == Init /\ [][Next]_vars

\* MeshGenerator::new_without_cache
InitWithoutCache ==
    /\ cache = <<>>
    /\ indexed_cache = <<>>
    /\ use_cache = FALSE
    /\ call = CallRec("new_without_cache")
    /\ result = Ok("unit")
    /\ trace = <<>>
    /\ calls = 0
    /\ builder = BuilderNew
    /\ quality = QualitySettingsDefault
    /\ font_calls = <<>>
    /\ raster = None

SpecWithoutCache == InitWithoutCache /\ [][Next]_vars

(***************************************************************************)
(* The same generator under calls that look at layout: characters with and *)
(* without outline and advance, texts with spaces, transforms that mirror  *)
(* and turn.                                                               *)
(***************************************************************************)
\* The call `c` was made and returned `out`, at most `n` calls being made.
ReturnedWithin(n, c, out) ==
    /\ calls < n
    /\ calls' = calls + 1
    /\ call' = c
    /\ \E o \in {out} :
           /\ result' = o.r
           /\ cache' = o.g.cache
           /\ indexed_cache' = o.g.indexed_cache
           /\ trace' = o.g.trace
    /\ UNCHANGED <<use_cache, builder, quality, font_calls, raster>>

\* (x, y) -> (-x, y): a scale of -1 along x, in the plane.
MirrorX2d == <<-1, 0, 0, 0, 1, 0, 0, 0, 1>>

\* A quarter turn about z: (x, y) -> (-y, x).
QuarterTurn == <<0, 1, 0, 0, -1, 0, 0, 0, 0, 0, 1, 0, 0, 0, 0, 1>>

LayoutChars == {"A", " ", "N"}

LayoutTexts ==
    {<<>>, <<"A", "A">>, <<" ", "A">>, <<"A", " ", "A">>, <<"N", "A">>}

LayoutGlyph ==
    \E glyph \in LayoutChars, flat \in BOOLEAN, indexed \in BOOLEAN,
       transform \in {None, Some(QuarterTurn)} :
        ReturnedWithin(MaxWideCalls,
            [CallRec("generate_glyph") EXCEPT !.glyph = glyph, !.flat = flat,
                 !.indexed = indexed, !.transform = transform],
            IF indexed THEN generate_glyph_indexed(G, glyph, flat, transform)
            ELSE generate_glyph(G, glyph, flat, transform))

LayoutGlyph2d ==
    \E glyph \in LayoutChars, indexed \in BOOLEAN,
       transform \in {None, Some(MirrorX2d)} :
        ReturnedWithin(MaxWideCalls,
            [CallRec("generate_glyph_2d") EXCEPT !.glyph = glyph, !.flat = TRUE,
                 !.indexed = indexed, !.transform = transform],
            IF indexed THEN generate_glyph_indexed_2d(G, glyph, transform)
            ELSE generate_glyph_2d(G, glyph, transform))

LayoutSection ==
    \E text \in LayoutTexts, flat \in {FALSE}, indexed \in BOOLEAN,
       transform \in {None, Some(QuarterTurn)} :
        ReturnedWithin(MaxWideCalls,
            [CallRec("generate_section") EXCEPT !.text = text, !.flat = flat,
                 !.indexed = indexed, !.transform = transform],
            IF indexed THEN generate_text_section_indexed(G, text, flat, transform)
            ELSE generate_text_section(G, text, flat, transform))

LayoutSection2d ==
    \E text \in LayoutTexts, indexed \in BOOLEAN,
       transform \in {None, Some(Scale2Move2d)} :
        ReturnedWithin(MaxWideCalls,
            [CallRec("generate_section_2d") EXCEPT !.text = text, !.flat = TRUE,
                 !.indexed = indexed, !.transform = transform],
            IF indexed THEN generate_text_section_indexed_2d(G, text, transform)
            ELSE generate_text_section_2d(G, text, transform))

NextLayout ==
    \/ LayoutGlyph
    \/ LayoutGlyph2d
    \/ LayoutSection
    \/ LayoutSection2d

SpecLayout == Init /\ [][NextLayout]_vars

(***************************************************************************)
(* The same generator under calls with malformed inputs: outlines with an  *)
(* open or a one-point contour, a character the font has no glyph for, and *)
(* custom meshes whose buffer is cut short.                                *)
(***************************************************************************)
FaultChars == {"X", "Y", "V", "D", "I", "_", "?"}

FaultTexts == {<<"?", "?">>, <<"A", "Y">>, <<"A", "I">>}

\* Buffers of 3 and of 4 numbers: the first does not divide by 2, the second
\* not by 3.
CustomThree ==
    [bbox |-> BoundingBox(<<0, 0, 0>>, <<One, One, One>>), indices |-> None,
     vertices |-> <<0, 0, One>>]

CustomFour ==
    [bbox |-> BoundingBox(<<0, 0, 0>>, <<One, One, One>>), indices |-> None,
     vertices |-> <<0, 0, One, One>>]

CustomFourIndexed ==
    [bbox |-> BoundingBox(<<0, 0, 0>>, <<One, One, One>>),
     indices |-> Some(<<0, 1, 0>>), vertices |-> <<0, 0, One, One>>]

FaultMeshes == {CustomThree, CustomFour, CustomFourIndexed, CustomPlain}

FaultyGlyph ==
    \E glyph \in FaultChars, flat \in BOOLEAN, indexed \in BOOLEAN :
        ReturnedWithin(MaxWideCalls,
            [CallRec("generate_glyph") EXCEPT !.glyph = glyph, !.flat = flat,
                 !.indexed = indexed],
            IF indexed THEN generate_glyph_indexed(G, glyph, flat, None)
            ELSE generate_glyph(G, glyph, flat, None))

FaultyGlyph2d ==
    \E glyph \in FaultChars, indexed \in BOOLEAN :
        ReturnedWithin(MaxWideCalls,
            [CallRec("generate_glyph_2d") EXCEPT !.glyph = glyph, !.flat = TRUE,
                 !.indexed = indexed],
            IF indexed THEN generate_glyph_indexed_2d(G, glyph, None)
            ELSE generate_glyph_2d(G, glyph, None))

FaultySection ==
    \E text \in FaultTexts, flat \in BOOLEAN, indexed \in BOOLEAN :
        ReturnedWithin(MaxWideCalls,
            [CallRec("generate_section") EXCEPT !.text = text, !.flat = flat,
                 !.indexed = indexed],
            IF indexed THEN generate_text_section_indexed(G, text, flat, None)
            ELSE generate_text_section(G, text, flat, None))

\* The character strings given to precache_glyphs: one with a glyph of two
\* points only, one with an open contour.
FaultGlyphStrings == {<<"A", "I">>, <<"Y">>}

FaultyPrecacheGlyphs ==
    \E glyphs \in FaultGlyphStrings, flat \in BOOLEAN, cache_type \in CacheTypes :
        ReturnedWithin(MaxWideCalls,
            [CallRec("precache_glyphs") EXCEPT !.text = glyphs, !.flat = flat,
                 !.cache_type = cache_type],
            precache_glyphs(G, glyphs, flat, cache_type))

\* The characters given a hand-made mesh: a letter and the underscore, which
\* is also the prefix of the keys of the extruded glyphs.
FaultCustomChars == {"A", "_"}

FaultyPrecacheCustomGlyph ==
    \E glyph \in FaultCustomChars, flat \in BOOLEAN, mesh \in FaultMeshes :
        ReturnedWithin(MaxWideCalls,
            [CallRec("precache_custom_glyph") EXCEPT !.glyph = glyph,
                 !.flat = flat, !.mesh = Some(mesh)],
            precache_custom_glyph(G, glyph, flat, mesh))

NextFaults ==
    \/ FaultyGlyph
    \/ FaultyGlyph2d
    \/ FaultySection
    \/ FaultyPrecacheGlyphs
    \/ FaultyPrecacheCustomGlyph

SpecFaults == Init /\ [][NextFaults]_vars

(***************************************************************************)
(* The outline builder on its own: a font draws one glyph into a builder,  *)
(* call by call, and raster_to_mesh is then given the outline.  The        *)
(* coordinates are multiples of Unit, which the interpolation steps of the *)
(* quality settings below divide without remainder.                        *)
(***************************************************************************)
Unit == 5832

PA == <<0, 0>>

PB == <<Unit, 0>>

PC == <<Unit, Unit>>

Q(p1, p) == [t |-> "quad_to", p1 |-> p1, p |-> p]

C(p1, p2, p) == [t |-> "curve_to", p1 |-> p1, p2 |-> p2, p |-> p]

Qualities ==
    {[quad_interpolation_steps |-> 3, cubic_interpolation_steps |-> 3],
     [quad_interpolation_steps |-> 1, cubic_interpolation_steps |-> 2]}

\* The calls a font makes before the ones followed here: none, or one closed
\* triangle.
Drawings == {<<>>, <<M(0, 0), L(Unit, 0), L(Unit, Unit), L(0, 0), Z>>}

\* The builder after a panic of one of its methods.
Panicked == [panicked |-> TRUE]

\* One call of the font on the builder.
Drawn(b, q, e) ==
    CASE e.t = "move_to" -> move_to(b, e.p)
      [] e.t = "line_to" -> line_to(b, e.p)
      [] e.t = "quad_to" -> quad_to(b, q.quad_interpolation_steps, 1, e.p1, e.p)
      [] e.t = "curve_to" ->
            curve_to(b, q.cubic_interpolation_steps, 1, e.p1, e.p2, e.p)
      [] e.t = "close" -> close(b)

\* contours.last_mut().unwrap() and .expect(..) panic when there is no
\* contour.
NoContour(b, q, e) ==
    /\ b.contours = <<>>
    /\ \/ e.t \in {"line_to", "close"}
       \/ e.t = "quad_to" /\ q.quad_interpolation_steps >= 1
       \/ e.t = "curve_to" /\ q.cubic_interpolation_steps >= 1

\* What the call leaves: a panic without a contour; at index 0 the
\* `self.index -= 1` of close panics in a debug build and wraps in a release
\* build.
Outcomes(b, q, e) ==
    IF NoContour(b, q, e) THEN {Panicked}
    ELSE IF e.t = "close" /\ b.index = 0 THEN {Panicked, close(b)}
    ELSE {Drawn(b, q, e)}

RECURSIVE DrawAll(_, _, _)
DrawAll(b, q, es) ==
    IF es = <<>> THEN b ELSE DrawAll(Drawn(b, q, Head(es)), q, Tail(es))

GeneratorVars == <<cache, indexed_cache, use_cache, call, result, trace>>

InitBuilder ==
    /\ cache = <<>>
    /\ indexed_cache = <<>>
    /\ use_cache = TRUE
    /\ call = CallRec("new")
    /\ result = Ok("unit")
    /\ trace = <<>>
    /\ calls = 0
    /\ quality \in Qualities
    /\ font_calls \in Drawings
    /\ builder = DrawAll(BuilderNew, quality, font_calls)
    /\ raster = None

Draw(e) ==
    /\ builder # Panicked
    /\ raster = None
    /\ calls < MaxEvents
    /\ calls' = calls + 1
    /\ font_calls' = Append(font_calls, e)
    /\ builder' \in Outcomes(builder, quality, e)
    /\ UNCHANGED <<quality, raster, GeneratorVars>>

MoveTo == Draw(M(0, 0))

LineTo == \E p \in {PA, PB, PC} : Draw(L(p[1], p[2]))

QuadTo == Draw(Q(PB, PC))

CurveTo == Draw(C(PB, PC, PA))

Close == Draw(Z)

\* Some contour holds an index no point stands behind.
Dangling(outline) ==
    \E k \in 1..Len(outline.contours) : \E i \in 1..Len(outline.contours[k]) :
        ~(outline.contours[k][i] \in 0..(Len(outline.points) - 1))

\* raster_to_mesh and raster_to_mesh_indexed on the outline.  With a dangling
\* index the triangulation is given an edge to a point that does not exist,
\* and points[i] panics: the call ends in an error or in a panic.
Rastered_of(outline, flat, indexed) ==
    IF Dangling(outline) /\ ~get_glyph_area_triangulation(outline).ok
    THEN {get_glyph_area_triangulation(outline)}
    ELSE IF Dangling(outline)
    THEN {Err("GlyphTriangulationError"), Err("panic")}
    ELSE IF indexed THEN {raster_to_mesh_indexed(outline, flat)}
    ELSE {raster_to_mesh(outline, flat)}

Raster(flat, indexed) ==
    /\ builder # Panicked
    /\ raster = None
    /\ \E r \in Rastered_of(get_glyph_outline(builder), flat, indexed) :
           raster' = Some([flat |-> flat, indexed |-> indexed, r |-> r])
    /\ UNCHANGED <<builder, quality, font_calls, calls, GeneratorVars>>

RasterToMesh == \E flat \in BOOLEAN : Raster(flat, FALSE)

RasterToMeshIndexed == \E flat \in BOOLEAN : Raster(flat, TRUE)

NextBuilder ==
    \/ MoveTo
    \/ LineTo
    \/ QuadTo
    \/ CurveTo
    \/ Close
    \/ RasterToMesh
    \/ RasterToMeshIndexed

SpecBuilder == InitBuilder /\ [][NextBuilder]_vars

(***************************************************************************)
(* The properties.                                                         *)
(***************************************************************************)
GlyphOps == {"generate_glyph", "generate_glyph_2d"}

SectionOps == {"generate_section", "generate_section_2d"}

GenOps == GlyphOps \cup SectionOps

AllHits(t) == \A k \in 1..Len(t) : t[k].how = "hit"

\* C1: on a generator with caching enabled, after clear_cache() returns both
\* cache maps, the non-indexed and the indexed one, are empty, whatever calls
\* preceded it.
C1_ClearEmptiesBothMaps ==
    (use_cache /\ call.op = "clear_cache") =>
        (cache = <<>> /\ indexed_cache = <<>>)

\* C2: on a generator made by new_without_cache nothing is persisted: a
\* generate_glyph, generate_section or precache_glyphs call made with both maps
\* empty leaves both maps empty, and no glyph of it is served from a map.
C2_NothingPersistedWithoutCache ==
    [][(/\ ~use_cache
        /\ cache = <<>>
        /\ indexed_cache = <<>>
        /\ call'.op \in GenOps \cup {"precache_glyphs"})
       => (/\ cache' = <<>>
           /\ indexed_cache' = <<>>
           /\ \A k \in 1..Len(trace') : trace'[k].how # "hit")]_vars

\* A generator made by new_without_cache that has done nothing yet.
FreshWithoutCache ==
    [cache |-> <<>>, indexed_cache |-> <<>>, use_cache |-> FALSE, trace |-> <<>>]

\* What the generating call `c` returns when every glyph of it is computed
\* from the font.
FromFont(c) ==
    CASE c.op = "generate_glyph" ->
            IF c.indexed
            THEN generate_glyph_indexed(FreshWithoutCache, c.glyph, c.flat, c.transform).r
            ELSE generate_glyph(FreshWithoutCache, c.glyph, c.flat, c.transform).r
      [] c.op = "generate_glyph_2d" ->
            IF c.indexed
            THEN generate_glyph_indexed_2d(FreshWithoutCache, c.glyph, c.transform).r
            ELSE generate_glyph_2d(FreshWithoutCache, c.glyph, c.transform).r
      [] c.op = "generate_section" ->
            IF c.indexed
            THEN generate_text_section_indexed(FreshWithoutCache, c.text, c.flat,
                                               c.transform).r
            ELSE generate_text_section(FreshWithoutCache, c.text, c.flat, c.transform).r
      [] c.op = "generate_section_2d" ->
            IF c.indexed
            THEN generate_text_section_indexed_2d(FreshWithoutCache, c.text,
                                                  c.transform).r
            ELSE generate_text_section_2d(FreshWithoutCache, c.text, c.transform).r

\* The next call generates the character of the precache_custom_glyph call
\* that has just returned, with the same flatness, the representation of the
\* supplied mesh and no transform.
NextGeneratesCustomGlyph ==
    /\ call.op = "precache_custom_glyph"
    /\ result.ok
    /\ call'.op \in GlyphOps
    /\ call'.glyph = call.glyph
    /\ call'.flat = call.flat
    /\ call'.indexed = IsSome(Unwrap(call.mesh).indices)
    /\ call'.transform = None

\* The flat buffer (x, y, x, y, ..) with a z of 0 after every pair.
WithZ(raw) ==
    [k \in 1..(3 * (Len(raw) \div 2)) |->
        IF k % 3 = 0 THEN 0 ELSE raw[2 * ((k - 1) \div 3) + (k % 3)]]

\* The mesh a glyph call `op` returns for the supplied `mesh`.
Served(mesh, op, flat) ==
    LET vertices == IF flat /\ op = "generate_glyph" THEN WithZ(mesh.vertices)
                    ELSE mesh.vertices
        bbox == IF op = "generate_glyph_2d"
                THEN [max |-> <<mesh.bbox.max[1], mesh.bbox.max[2], 0>>,
                      min |-> <<mesh.bbox.min[1], mesh.bbox.min[2], 0>>]
                ELSE mesh.bbox
    IN  IF IsSome(mesh.indices)
        THEN [bbox |-> bbox, indices |-> Unwrap(mesh.indices), vertices |-> vertices]
        ELSE [bbox |-> bbox, vertices |-> vertices]

\* C3, as the specification states it: after precache_custom_glyph(c, flat,
\* mesh) on a generator with a cache, the next generation of c with the same
\* flatness, the representation of the mesh and no transform returns exactly
\* the vertices, indices and bounding box of the supplied mesh.
C3_CustomGlyphReturnedExactly ==
    [][(use_cache /\ NextGeneratesCustomGlyph)
       => (/\ result'.ok
           /\ result'.val.vertices = Unwrap(call.mesh).vertices
           /\ result'.val.bbox = Unwrap(call.mesh).bbox
           /\ (call'.indexed =>
                   result'.val.indices = Unwrap(Unwrap(call.mesh).indices)))]_vars

\* C3, amended: that generation is served from the map and returns the indices
\* of the supplied mesh; for flat = false its vertices and bounding box as
\* supplied; for flat = true the 3D call returns every supplied pair (x, y) as
\* (x, y, 0) with the supplied bounding box, and the 2D call the supplied pairs
\* with the z of the bounding box set to 0.  An entry that existed before is
\* overwritten.
C3_CustomGlyphServed ==
    [][(use_cache /\ NextGeneratesCustomGlyph)
       => (/\ result' = Ok(Served(Unwrap(call.mesh), call'.op, call.flat))
           /\ AllHits(trace') /\ Len(trace') = 1)]_vars

\* C3 witness: "A" was generated from the font, given the hand-made flat
\* mesh and generated again: the third call returns the hand-made mesh.
C3_Witness ==
    /\ use_cache
    /\ calls = 3
    /\ call.op = "generate_glyph"
    /\ call.glyph = "A" /\ call.flat /\ ~call.indexed /\ call.transform = None
    /\ AllHits(trace)
    /\ result = Ok(Served(CustomPlain, "generate_glyph", TRUE))
    /\ result # FromFont(call)

\* C4: on a generator made by new_without_cache a mesh registered with
\* precache_custom_glyph is not used: every later generate_glyph and
\* generate_section call returns the geometry computed from the font.
C4_CustomGlyphUnusedWithoutCache ==
    (~use_cache /\ call.op \in GenOps) => result = FromFont(call)

\* Every entry of the map `old` is in the map `new` as it was.
Kept(old, new) == \A k \in DOMAIN old : k \in DOMAIN new /\ new[k] = old[k]

\* The keys of the glyphs the last call computed for one of the maps.
ComputedKeys(t, indexed) ==
    {Key(t[k].glyph, t[k].flat) :
        k \in {j \in 1..Len(t) : t[j].indexed = indexed /\ t[j].how = "computed"}}

\* The keys of (c, flat) for the characters c of a string.
KeysOf(glyphs, flat) == {Key(glyphs[k], flat) : k \in 1..Len(glyphs)}

\* C5: after precache_glyphs(glyphs, flat, selector) returns Ok on a generator
\* with a cache, the non-indexed map holds the key of (c, flat) for every
\* character c of glyphs when the selector is Normal or None, the indexed map
\* holds it when the selector is Indexed or None, and a map that was not
\* selected has exactly the entries it had before the call.
C5_PrecacheFillsSelectedMaps ==
    [][(use_cache /\ call'.op = "precache_glyphs" /\ result'.ok)
       => (/\ call'.cache_type \in {None, Some("Normal")}
                => KeysOf(call'.text, call'.flat) \subseteq DOMAIN cache'
           /\ call'.cache_type \in {None, Some("Indexed")}
                => KeysOf(call'.text, call'.flat) \subseteq DOMAIN indexed_cache'
           /\ call'.cache_type = Some("Normal") => indexed_cache' = indexed_cache
           /\ call'.cache_type = Some("Indexed") => cache' = cache)]_vars

\* C5 witness: precache_glyphs("A ", flat, Indexed) returned Ok with glyphs
\* in the non-indexed map, which it did not select.
C5_Witness ==
    /\ use_cache
    /\ call.op = "precache_glyphs"
    /\ result.ok
    /\ call.cache_type = Some("Indexed")
    /\ cache # <<>>
    /\ Len(trace) = 2
    /\ \E k \in 1..2 : trace[k].how = "computed"
    /\ KeysOf(<<"A", " ">>, call.flat) \subseteq DOMAIN indexed_cache

\* C6, as the specification states it: when the generation of a character
\* fails during precache_glyphs the call returns the error and both maps hold
\* exactly the entries they held before the call.
C6_FailedPrecacheChangesNothing ==
    [][(use_cache /\ call'.op = "precache_glyphs" /\ ~result'.ok)
       => (cache' = cache /\ indexed_cache' = indexed_cache)]_vars

\* C6, amended: the call returns the error of the first character that
\* fails and generates nothing after it; the entries the maps held before the
\* call are unchanged, the glyphs generated before the failure stay in the
\* maps, and nothing else is added.
C6_FailedPrecacheKeepsEarlierGlyphs ==
    [][(use_cache /\ call'.op = "precache_glyphs" /\ ~result'.ok)
       => (/\ DOMAIN result' = {"ok", "err"}
           /\ trace' # <<>>
           /\ \A k \in 1..Len(trace') :
                  trace'[k].how = "failed" <=> k = Len(trace')
           /\ Kept(cache, cache')
           /\ Kept(indexed_cache, indexed_cache')
           /\ DOMAIN cache' \ DOMAIN cache = ComputedKeys(trace', FALSE)
           /\ DOMAIN indexed_cache' \ DOMAIN indexed_cache
                  = ComputedKeys(trace', TRUE))]_vars

\* C6 witness: precache_glyphs("AX", ..) computed and stored "A" and failed
\* at "X".
C6_Witness ==
    /\ use_cache
    /\ call.op = "precache_glyphs"
    /\ ~result.ok
    /\ Len(trace) = 2
    /\ trace[1].how = "computed"
    /\ trace[2].how = "failed" /\ trace[2].glyph = "X"
    /\ Key("A", call.flat) \in DOMAIN cache

C8_GenerateGlyphIdempotent ==
    [][(call.op \in GlyphOps /\ call' = call)
       => (/\ result' = result
           /\ result.ok => (Len(trace') = 1 /\ trace'[1].how = "hit"))]_vars

\* C8 witness: the second of two calls for "A" with a transform was served
\* from the map, which holds the glyph the first call computed from the font.
C8_Witness ==
    /\ calls = 2
    /\ call.op = "generate_glyph"
    /\ call.glyph = "A" /\ ~call.indexed /\ call.transform # None
    /\ result.ok
    /\ AllHits(trace)
    /\ DOMAIN cache = {Key("A", call.flat)}
    /\ indexed_cache = <<>>
    /\ result = FromFont(call)

\* The raw buffer of 3-component vertices moved by the column-major matrix.
MovedRaw(raw, transform) ==
    glam_vecs_to_raw(Moved(glam_vecs_from_raw(raw).val, Mat4FromColsArray(transform)))

\* The mesh of the entry of the call's glyph as the 3D calls return it.
Stored(c, plain, indexed) ==
    IF c.indexed
    THEN text_mesh_from_data_indexed(indexed[Key(c.glyph, c.flat)])
    ELSE text_mesh_from_data(plain[Key(c.glyph, c.flat)])

\* C9: a generating call never changes an entry the maps hold, whatever
\* transform it applies, and a call served from the maps alone leaves both
\* maps as they were; generating a character with a transform T and then with
\* no transform returns the stored, untransformed glyph, of which the first
\* result is the image under T.
C9_ReturnedMeshesIndependentOfCache ==
    [][(call'.op \in GenOps)
       => (/\ Kept(cache, cache')
           /\ Kept(indexed_cache, indexed_cache')
           /\ AllHits(trace') => (cache' = cache /\ indexed_cache' = indexed_cache)
           /\ (/\ call.op = "generate_glyph"
               /\ call.transform # None
               /\ call' = [call EXCEPT !.transform = None])
              => (/\ result'.ok = result.ok
                  /\ result.ok =>
                        (/\ AllHits(trace')
                         /\ result' = Ok(Stored(call, cache, indexed_cache))
                         /\ result.val.vertices
                               = MovedRaw(result'.val.vertices, Unwrap(call.transform))
                         /\ result.val.bbox
                               = BBoxTransform(result'.val.bbox,
                                     Mat4FromColsArray(Unwrap(call.transform))))))]_vars

\* C9 witness: a call with a transform was served from the map and returned
\* vertices that are not those of the entry, which is the glyph of the font.
C9_Witness ==
    /\ call.op = "generate_glyph"
    /\ call.glyph = "A" /\ ~call.indexed /\ call.transform # None
    /\ result.ok
    /\ AllHits(trace)
    /\ result.val.vertices # Stored(call, cache, indexed_cache).vertices
    /\ Ok(Stored(call, cache, indexed_cache))
          = FromFont([call EXCEPT !.transform = None])

\* A glyph call without a transform returned the mesh of a character whose
\* glyph has an outline.
OutlinedGlyphGenerated ==
    /\ call.op \in GlyphOps
    /\ call.transform = None
    /\ IsSome(GlyphRect(glyph_id_of_char(call.glyph)))
    /\ result.ok

\* The depth of the bounding box the call returned is that of a flat or of
\* an extruded glyph.
DepthOfGlyph ==
    IF call.flat
    THEN result.val.bbox.min[3] = 0 /\ result.val.bbox.max[3] = 0
    ELSE result.val.bbox.max[3] = Half /\ result.val.bbox.min[3] = -Half

\* The call returned a mesh registered with precache_custom_glyph.
CustomGlyphServed ==
    \E mesh \in CustomMeshes :
        /\ IsSome(mesh.indices) = call.indexed
        /\ result = Ok(Served(mesh, call.op, call.flat))

\* C10, as the specification states it: for a character whose glyph has an
\* outline, generated with no transform, the flat mesh has min.z = max.z = 0
\* and the extruded mesh max.z = 0.5 and min.z = -0.5, indexed or not, on a
\* miss and on a hit.
C10_GlyphDepth == OutlinedGlyphGenerated => DepthOfGlyph

\* C10, amended: that holds whenever the glyph is computed from the font, and
\* on a hit unless the mesh served is one registered with
\* precache_custom_glyph, whose bounding box the 3D calls return as supplied;
\* the 2D calls return a z of 0 for every mesh.
C10_FontGlyphDepth ==
    OutlinedGlyphGenerated
    => (/\ (trace[1].how = "computed" \/ ~CustomGlyphServed) => DepthOfGlyph
        /\ call.op = "generate_glyph_2d" => DepthOfGlyph
        /\ (call.op = "generate_glyph" /\ CustomGlyphServed)
              => \E mesh \in CustomMeshes : result.val.bbox = mesh.bbox)

\* C10 witness: the extruded "A", indexed, served from the map with the depth
\* of an extruded glyph.
C10_Witness ==
    /\ OutlinedGlyphGenerated
    /\ call.glyph = "A" /\ ~call.flat /\ call.indexed
    /\ trace[1].how = "hit"
    /\ ~CustomGlyphServed
    /\ result.val.bbox.max[3] - result.val.bbox.min[3] = One

\* A glyph call returned for a character whose glyph has no outline.
NoOutlineGlyphGenerated ==
    /\ call.op \in GlyphOps
    /\ GlyphRect(glyph_id_of_char(call.glyph)) = None

\* Where the call's transform takes the origin.
ImageOfOrigin ==
    IF call.transform = None THEN <<0, 0, 0>>
    ELSE IF call.op = "generate_glyph"
    THEN transform_point3a(Mat4FromColsArray(Unwrap(call.transform)), <<0, 0, 0>>)
    ELSE transform_point2(Mat3FromColsArray(Unwrap(call.transform)), <<0, 0>>)
         \o <<0>>

\* The entry the maps hold for the character of the call.
EntryOfCall ==
    IF call.indexed THEN indexed_cache[Key(call.glyph, call.flat)]
    ELSE cache[Key(call.glyph, call.flat)]

NoVerticesNoIndices ==
    /\ result.ok
    /\ result.val.vertices = <<>>
    /\ call.indexed => result.val.indices = <<>>

\* C11, as the specification states it: a character whose glyph has no
\* outline is generated, flat and extruded, indexed and not, as a mesh with zero
\* vertices, zero indices and a bounding box whose min and max are both
\* (0, 0, 0), without an error.
C11_NoOutlineGlyphAllZero ==
    NoOutlineGlyphGenerated
    => (NoVerticesNoIndices /\ result.val.bbox = BoundingBoxEmpty)

\* C11, amended: the mesh has zero vertices and zero indices and no error is
\* returned; the entry stored for the character has the all-zero bounding
\* box, and the box returned is of size zero, min and max both being the image
\* of the origin under the call's transform, (0, 0, 0) when there is none.
C11_NoOutlineGlyphZeroSize ==
    NoOutlineGlyphGenerated
    => (/\ NoVerticesNoIndices
        /\ EntryOfCall.vertices = <<>>
        /\ EntryOfCall.bbox = BoundingBoxEmpty
        /\ call.indexed => EntryOfCall.indices = <<>>
        /\ result.val.bbox = BoundingBox(ImageOfOrigin, ImageOfOrigin))

\* C11 witness: the extruded space, indexed, generated with a transform that
\* moves it: an empty mesh whose bounding box is not the all-zero one.
C11_Witness ==
    /\ NoOutlineGlyphGenerated
    /\ call.glyph = " " /\ ~call.flat /\ call.indexed
    /\ call.transform = Some(Scale2Move)
    /\ NoVerticesNoIndices
    /\ result.val.bbox = BoundingBox(<<One, 0, 0>>, <<One, 0, 0>>)

Ops2d == {"generate_glyph_2d", "generate_section_2d"}

\* The number of vertices of the returned mesh: the 2D calls return two
\* numbers for a vertex, the others three.
VertexCount == Len(result.val.vertices) \div (IF call.op \in Ops2d THEN 2 ELSE 3)

IndexedMeshReturned == call.op \in GenOps /\ call.indexed /\ result.ok

\* C12: in every indexed mesh built from glyphs of the font by a glyph or a
\* section call, every index is less than the number of vertices of the mesh
\* (the triangulation returning indices into the points it was given).
C12_IndicesInRange ==
    IndexedMeshReturned
    => \A k \in 1..Len(result.val.indices) :
           result.val.indices[k] \in 0..(VertexCount - 1)

\* C12 witness: the extruded section "A A", whose largest index is the last
\* of its twelve vertices.
C12_Witness ==
    /\ IndexedMeshReturned
    /\ call.op = "generate_section" /\ call.text = <<"A", " ", "A">>
    /\ VertexCount = 12
    /\ SeqMax(result.val.indices) = VertexCount - 1

\* The pen position of the k-th character of the text: the advances of the
\* characters before it, each glyph_hor_advance / height, 0 for a glyph
\* without an advance.
RECURSIVE PenAt(_, _)
PenAt(text, k) ==
    IF k = 1 THEN 0
    ELSE PenAt(text, k - 1)
         + (UnwrapOr(glyph_hor_advance(UnwrapOr(glyph_index(text[k - 1]), 0)), 0)
            * One) \div FontHeight

\* The column-major array of the matrix that moves by `pen` along x and then
\* applies the transform of the section call `c`.
PlacedBy(c, pen) ==
    IF c.op = "generate_section"
    THEN Flatten(Mat4Mul(IF c.transform = None THEN Mat4Identity
                         ELSE Mat4FromColsArray(Unwrap(c.transform)),
                         Mat4FromTranslation(pen, 0, 0)))
    ELSE Flatten(Mat3Mul(IF c.transform = None THEN Mat3Identity
                         ELSE Mat3FromColsArray(Unwrap(c.transform)),
                         Mat3FromTranslation(pen, 0)))

\* The glyph call that generates the k-th character of the section call `c`
\* alone, with the given transform.
GlyphCallOf(c, k, transform) ==
    [CallRec(IF c.op = "generate_section" THEN "generate_glyph"
             ELSE "generate_glyph_2d")
        EXCEPT !.glyph = c.text[k], !.flat = c.flat, !.indexed = c.indexed,
               !.transform = transform]

\* The k-th character of the section call `c` generated alone: as it is, and
\* at its place in the section.
GlyphAlone(c, k) == FromFont(GlyphCallOf(c, k, None)).val

GlyphPlaced(c, k) ==
    FromFont(GlyphCallOf(c, k, Some(PlacedBy(c, PenAt(c.text, k))))).val

PlainSectionReturned == call.op \in SectionOps /\ ~call.indexed /\ result.ok

\* C13: the vertex buffer of a non-indexed section is the concatenation, in
\* the order of the text, of the buffers of its characters generated one by
\* one, a repeated character counting each time; the number of vertices is the
\* sum of the numbers of vertices of the glyphs generated independently.
C13_SectionIsConcatenation ==
    PlainSectionReturned
    => (/\ result.val.vertices
              = Flatten([k \in 1..Len(call.text) |-> GlyphPlaced(call, k).vertices])
        /\ Len(result.val.vertices)
              = Len(Flatten([k \in 1..Len(call.text) |->
                                GlyphAlone(call, k).vertices])))

\* C13 witness: the extruded section "AA" under a quarter turn, twice the
\* vertices of "A", the two halves differing.
C13_Witness ==
    /\ PlainSectionReturned
    /\ call.op = "generate_section" /\ call.text = <<"A", "A">>
    /\ call.transform = Some(QuarterTurn)
    /\ Len(result.val.vertices) = 2 * Len(GlyphAlone(call, 1).vertices)
    /\ GlyphPlaced(call, 1).vertices # GlyphPlaced(call, 2).vertices
    /\ GlyphAlone(call, 1).vertices # <<>>

IndexedSectionReturned == call.op \in SectionOps /\ call.indexed /\ result.ok

\* The indices the section returned for the characters before the k-th.
EmittedBefore(k) ==
    SubSeq(result.val.indices, 1,
           Len(Flatten([j \in 1..(k - 1) |-> GlyphAlone(call, j).indices])))

\* The largest index emitted by the characters before the k-th, plus one; 0
\* when they emitted none.
OffsetAt(k) ==
    IF EmittedBefore(k) = <<>> THEN 0 ELSE SeqMax(EmittedBefore(k)) + 1

\* C14: in an indexed section the indices of each character are those of its
\* glyph generated alone plus an offset, the largest index emitted by all the
\* characters before it plus one, or 0 when none was emitted; a glyph without
\* indices, first or in the middle, leaves the offset as it is.
C14_IndicesOffsetByLargestSoFar ==
    IndexedSectionReturned
    => result.val.indices
          = Flatten([k \in 1..Len(call.text) |->
                [i \in 1..Len(GlyphAlone(call, k).indices) |->
                    GlyphAlone(call, k).indices[i] + OffsetAt(k)]])

\* C14 witness: the extruded section "A A": the space emits nothing, and the
\* second "A" is offset by the six vertices of the first.
C14_Witness ==
    /\ IndexedSectionReturned
    /\ call.op = "generate_section" /\ call.text = <<"A", " ", "A">>
    /\ GlyphAlone(call, 2).indices = <<>>
    /\ OffsetAt(2) = 6 /\ OffsetAt(3) = 6
    /\ Len(result.val.indices) = 2 * Len(GlyphAlone(call, 1).indices)
    /\ SeqMax(result.val.indices) = 11

\* The characters a generating call asks for.
CharsOfCall ==
    IF call.op \in GlyphOps THEN {call.glyph}
    ELSE {call.text[k] : k \in 1..Len(call.text)}

\* The outline the builder made of the character's glyph has a contour whose
\* last edge does not end where its first edge starts.
HasOpenContour(c) ==
    \E k \in 1..Len(Outlined[glyph_id_of_char(c)].builder.contours) :
        LET contour == Outlined[glyph_id_of_char(c)].builder.contours[k]
        IN  Len(contour) >= 2 /\ contour[1] # contour[Len(contour)]

\* C15: a call for a character whose outline has an open contour returns the
\* open-contour triangulation error, raised before the triangulation is asked
\* for anything; it returns no mesh, and no mesh of the character is stored.
C15_OpenContourIsAnError ==
    (call.op \in GenOps /\ \E c \in CharsOfCall : HasOpenContour(c))
    => (/\ result = Err("GlyphTriangulationError: Open contour.")
        /\ \A c \in CharsOfCall : \A flat \in BOOLEAN :
               HasOpenContour(c) =>
                   /\ Key(c, flat) \notin DOMAIN cache
                   /\ Key(c, flat) \notin DOMAIN indexed_cache)

\* C15 witness: "V", a single edge: an outline of two points, which the
\* triangulation would refuse with an error of its own.
C15_Witness ==
    /\ call.op = "generate_glyph" /\ call.glyph = "V"
    /\ HasOpenContour("V")
    /\ ~constrained_triangulation(Outlined[7].builder.points, <<>>).ok
    /\ result = Err("GlyphTriangulationError: Open contour.")
    /\ trace[1].how = "failed"

\* Some close of the glyph of the character comes when the contour it closes
\* holds fewer than 2 points.
ClosesShortContour(c) ==
    LET events == GlyphEvents(glyph_id_of_char(c))
    IN  \E i \in 1..Len(events) :
            /\ events[i] = Z
            /\ LET b == FeedAll(BuilderNew, SubSeq(events, 1, i - 1))
               IN  b.contours = <<>> \/ Len(b.contours[Len(b.contours)]) < 2

\* C16: a contour closed while it holds fewer than 2 points is reported as an
\* outline error: the call returns that error, and no mesh of the character is
\* triangulated or stored.
C16_ShortContourIsAnError ==
    (call.op \in GenOps /\ \E c \in CharsOfCall : ClosesShortContour(c))
    => (/\ result = Err("GlyphOutlineError")
        /\ \A c \in CharsOfCall : \A flat \in BOOLEAN :
               ClosesShortContour(c) =>
                   /\ Key(c, flat) \notin DOMAIN cache
                   /\ Key(c, flat) \notin DOMAIN indexed_cache)

\* The buffer of the custom mesh does not divide into vertices: by 3 numbers
\* for flat = false, by 2 for flat = true.
MalformedBuffer(c) ==
    Len(Unwrap(c.mesh).vertices) % (IF c.flat THEN 2 ELSE 3) # 0

\* C17: precache_custom_glyph reports a vertex buffer that does not divide
\* into vertices as a vertex error: it returns that error, does not panic, and
\* leaves both maps as they were.
C17_MalformedBufferIsAnError ==
    [][(call'.op = "precache_custom_glyph" /\ MalformedBuffer(call'))
       => (/\ result' = Err("VertexError")
           /\ cache' = cache
           /\ indexed_cache' = indexed_cache)]_vars

\* C18: every bounding box a glyph or a section call returns, for any
\* character, text and transform (mirrors and turns among them), has
\* min <= max along each axis; the box of an empty result is the all-zero one.
C18_BoxMinBelowMax ==
    (call.op \in GenOps /\ result.ok)
    => (/\ \A i \in 1..3 : result.val.bbox.min[i] <= result.val.bbox.max[i]
        /\ result.val.vertices = <<>> => result.val.bbox = BoundingBoxEmpty)

\* The raw buffer of 2-component vertices moved by the column-major matrix.
MovedRaw2d(raw, transform) ==
    glam_vecs_to_raw_2d(
        Moved2d([k \in 1..(Len(raw) \div 2) |-> <<raw[2 * k - 1], raw[2 * k]>>],
                Mat3FromColsArray(transform)))

\* The part of the returned vertex buffer that belongs to the k-th character.
SliceOf(k) ==
    SubSeq(result.val.vertices,
           Len(Flatten([j \in 1..(k - 1) |-> GlyphAlone(call, j).vertices])) + 1,
           Len(Flatten([j \in 1..k |-> GlyphAlone(call, j).vertices])))

\* The untransformed k-th glyph under base_transform * translate(a_k, 0, 0).
UnderPen(k) ==
    IF call.op = "generate_section"
    THEN MovedRaw(GlyphAlone(call, k).vertices, PlacedBy(call, PenAt(call.text, k)))
    ELSE MovedRaw2d(GlyphAlone(call, k).vertices, PlacedBy(call, PenAt(call.text, k)))

\* C19: in a text section the k-th character is generated under
\* base_transform * translate(a_k, 0, 0), a_0 being 0 and a_k the sum of
\* glyph_hor_advance / font height over the characters before it, 0 for a
\* character without an advance; a character with an empty mesh moves the pen
\* like any other.
C19_GlyphsPlacedAtPen ==
    (call.op \in SectionOps /\ result.ok)
    => \A k \in 1..Len(call.text) : SliceOf(k) = UnderPen(k)

\* C19 witness: the extruded section "A A" under a quarter turn: the second
\* "A" stands 1.5 from the first, the advances of "A" and of the space, and
\* the turn takes that distance to the y axis.
C19_Witness ==
    /\ call.op = "generate_section" /\ call.text = <<"A", " ", "A">>
    /\ call.transform = Some(QuarterTurn)
    /\ result.ok
    /\ PenAt(call.text, 3) = One + Half
    /\ SliceOf(3) = UnderPen(3)
    /\ SliceOf(3)
          = [i \in 1..Len(SliceOf(1)) |->
                SliceOf(1)[i] + (IF i % 3 = 2 THEN One + Half ELSE 0)]

\* The entry made of glyph 0, the font's notdef glyph.
NotdefEntry(flat, indexed) ==
    IF indexed
    THEN [indices |-> RasteredIndexed[0][flat].val.indices,
          vertices |-> RasteredIndexed[0][flat].val.vertices,
          bbox |-> BBoxOfGlyph(GlyphRect(0), flat)]
    ELSE [vertices |-> Rastered[0][flat].val,
          bbox |-> BBoxOfGlyph(GlyphRect(0), flat)]

\* Glyph 0 as the glyph call `c` returns it without a transform.
NotdefMesh(c) ==
    CASE c.op = "generate_glyph" /\ ~c.indexed ->
            text_mesh_from_data(NotdefEntry(c.flat, FALSE))
      [] c.op = "generate_glyph" /\ c.indexed ->
            text_mesh_from_data_indexed(NotdefEntry(c.flat, TRUE))
      [] c.op = "generate_glyph_2d" /\ ~c.indexed ->
            text_mesh_from_data_2d(mesh_to_flat_2d(NotdefEntry(TRUE, FALSE)))
      [] c.op = "generate_glyph_2d" /\ c.indexed ->
            text_mesh_from_data_indexed_2d(
                mesh_to_indexed_flat_2d(NotdefEntry(TRUE, TRUE)))

\* The advance the font reports for glyph 0, over the font height.
NotdefAdvance == (Unwrap(glyph_hor_advance(0)) * One) \div FontHeight

\* C20: for a character the font reports no glyph index for, glyph id 0 is
\* used for the outline and for the advance: the call returns the mesh of that
\* glyph, not an error, and stores it under the key of the character asked
\* for; in a section the next character stands one advance of glyph 0 on.
C20_MissingGlyphIsNotdef ==
    /\ (call.op \in GlyphOps /\ glyph_index(call.glyph) = None)
       => (/\ result = Ok(NotdefMesh(call))
           /\ (IF call.indexed THEN indexed_cache ELSE cache)[Key(call.glyph, call.flat)]
                 = NotdefEntry(call.flat, call.indexed))
    /\ (call.op = "generate_section" /\ call.text = <<"?", "?">>)
       => (/\ result.ok
           /\ result.val.vertices
                 = Flatten([k \in 1..2 |->
                       MovedRaw(NotdefMesh([call EXCEPT !.op = "generate_glyph"]).vertices,
                                Flatten(Mat4FromTranslation((k - 1) * NotdefAdvance,
                                                            0, 0)))])
           /\ Key("?", call.flat)
                 \in DOMAIN (IF call.indexed THEN indexed_cache ELSE cache))

\* C20 witness: "?" generated extruded and indexed: the eight vertices of
\* the notdef square, stored under "_?".
C20_Witness ==
    /\ call.op = "generate_glyph" /\ call.glyph = "?"
    /\ ~call.flat /\ call.indexed
    /\ glyph_index("?") = None
    /\ result.ok
    /\ Len(result.val.vertices) = 24
    /\ <<"_", "?">> \in DOMAIN indexed_cache

\* The last call the font made on the builder, and the builder before it.
LastCall == font_calls[Len(font_calls)]

BuilderBefore ==
    DrawAll(BuilderNew, quality, SubSeq(font_calls, 1, Len(font_calls) - 1))

\* The last call flattened a curve (and did not panic).
CurveDrawn ==
    /\ font_calls # <<>>
    /\ builder # Panicked
    /\ LastCall.t \in {"quad_to", "curve_to"}

StepsOfCurve ==
    IF LastCall.t = "quad_to" THEN quality.quad_interpolation_steps
    ELSE quality.cubic_interpolation_steps

\* The points the last call appended.
Appended ==
    SubSeq(builder.points, Len(BuilderBefore.points) + 1, Len(builder.points))

\* The point at parameter k / n of the curve that starts at the pen position
\* the call found, as the builder stores it.
OnCurve(k, n) ==
    LET p == IF LastCall.t = "quad_to"
             THEN point_on_quad(BuilderBefore.current_point, LastCall.p1,
                                LastCall.p, <<k, n>>)
             ELSE point_on_cubic(BuilderBefore.current_point, LastCall.p1,
                                 LastCall.p2, LastCall.p, <<k, n>>)
    IN  <<Norm(p[1]), Norm(p[2])>>

\* C21: quad_to with n = quad_interpolation_steps >= 1 and curve_to with
\* n = cubic_interpolation_steps >= 1 append exactly n points, the k-th being
\* the point at parameter k / n of the Bezier curve from the pen position at
\* the start of the call through the control point(s) to the end point.
C21_CurvePointsOnBezier ==
    CurveDrawn
    => (/\ Len(Appended) = StepsOfCurve
        /\ \A k \in 1..StepsOfCurve : Appended[k] = OnCurve(k, StepsOfCurve))

\* The position in font_calls of the last move_to (0 if there is none).
LastMove ==
    IF \E i \in 1..Len(font_calls) : font_calls[i].t = "move_to"
    THEN CHOOSE i \in 1..Len(font_calls) :
            /\ font_calls[i].t = "move_to"
            /\ \A j \in (i + 1)..Len(font_calls) : font_calls[j].t # "move_to"
    ELSE 0

\* The number of line_to events a call stands for.
LineTos(e) ==
    CASE e.t = "line_to" -> 1
      [] e.t = "quad_to" -> quality.quad_interpolation_steps
      [] e.t = "curve_to" -> quality.cubic_interpolation_steps
      [] OTHER -> 0

RECURSIVE LineTosIn(_)
LineTosIn(es) == IF es = <<>> THEN 0 ELSE LineTos(es[1]) + LineTosIn(Tail(es))

\* The calls between the last move_to and the last call.
SinceMove == SubSeq(font_calls, LastMove + 1, Len(font_calls) - 1)

\* The builder at the moment of the last move_to.
BuilderAtMove ==
    DrawAll(BuilderNew, quality, SubSeq(font_calls, 1, LastMove - 1))

\* The calls so far end with move_to, at least two line_to events and the
\* close of that contour.
ContourClosed ==
    /\ builder # Panicked
    /\ LastMove > 0
    /\ LastCall.t = "close"
    /\ \A i \in 1..Len(SinceMove) : SinceMove[i].t \notin {"close", "move_to"}
    /\ LineTosIn(SinceMove) >= 2

IsOneCycle(edges, from, n) ==
    /\ Len(edges) = n
    /\ \A k \in 1..n : edges[k][2] = edges[(k % n) + 1][1]
    /\ \A i \in from..(from + n - 1) :
        /\ Cardinality({k \in 1..n : edges[k][1] = i}) = 1
        /\ Cardinality({k \in 1..n : edges[k][2] = i}) = 1

\* C22: after move_to, n >= 2 line_to events (direct or from the flattening
\* of curves) and close, with s the value of the index counter at the
\* move_to, the contour is [s, s+1, ..., s+n-1, s], the outline holds exactly
\* n points for it, the next contour starts at s+n, and the edges of the
\* contour form one cycle through s..s+n-1.
C22_ClosedContourIsACycle ==
    ContourClosed
    => LET n == LineTosIn(SinceMove)
           s == BuilderAtMove.index
           contour == builder.contours[Len(builder.contours)]
       IN  /\ contour = [i \in 1..(n + 1) |-> IF i = n + 1 THEN s ELSE s + i - 1]
           /\ Len(builder.points) = Len(BuilderAtMove.points) + n
           /\ move_to(builder, PA).start_index = s + n
           /\ IsOneCycle(ContourEdges(contour), s, n)

\* A second contour, drawn with a curve, has been closed.
C22_Witness ==
    /\ ContourClosed
    /\ BuilderAtMove.index > 0
    /\ \E i \in 1..Len(SinceMove) : SinceMove[i].t = "quad_to"

\* The outline handed to raster_to_mesh / raster_to_mesh_indexed, its contour
\* edges (the consecutive pairs of every contour) and its triangles.
RasteredOutline == get_glyph_outline(builder)

EdgesOfOutline ==
    Flatten([k \in 1..Len(RasteredOutline.contours) |->
                ContourEdges(RasteredOutline.contours[k])])

TrianglesOfOutline ==
    constrained_triangulation(RasteredOutline.points, EdgesOfOutline).val

\* raster_to_mesh (indexed = FALSE) or raster_to_mesh_indexed (indexed = TRUE)
\* has returned a mesh.
MeshRastered(flat, indexed) ==
    /\ raster # None
    /\ raster[1].flat = flat
    /\ raster[1].indexed = indexed
    /\ raster[1].r.ok

PointAt(p, z) == Vec3(At(RasteredOutline.points, p), z)

\* The six vertices are two triangles that join the endpoints a and b of an
\* edge at z = +0.5 and z = -0.5.
IsWall(six, a, b) ==
    /\ {six[i] : i \in 1..6}
         = {PointAt(a, Half), PointAt(b, Half), PointAt(a, -Half), PointAt(b, -Half)}
    /\ \A t \in {0, 3} : /\ \E i \in 1..3 : six[t + i][3] = Half
                         /\ \E i \in 1..3 : six[t + i][3] = -Half

\* C23: with T triangles and E contour edges, the extruded non-indexed mesh
\* has 6T + 6E vertices: per triangle (i0, i1, i2) the front cap at z = +0.5
\* in the order i0, i1, i2 and the back cap at z = -0.5 in the order i2, i1,
\* i0, then per contour edge two wall triangles joining its endpoints at
\* z = +0.5 and z = -0.5.  The flat non-indexed mesh has 3T vertices, all at
\* z = 0.
C23_NonIndexedMeshLayout ==
    LET v == raster[1].r.val
        tri == TrianglesOfOutline
        T == Len(tri)
        E == Len(EdgesOfOutline)
    IN  /\ MeshRastered(TRUE, FALSE)
           => /\ Len(v) = 3 * T
              /\ \A i \in 1..Len(v) : v[i][3] = 0
        /\ MeshRastered(FALSE, FALSE)
           => /\ Len(v) = 6 * T + 6 * E
              /\ \A k \in 1..T :
                    SubSeq(v, 6 * k - 5, 6 * k)
                      = <<PointAt(tri[k][1], Half), PointAt(tri[k][2], Half),
                          PointAt(tri[k][3], Half), PointAt(tri[k][3], -Half),
                          PointAt(tri[k][2], -Half), PointAt(tri[k][1], -Half)>>
              /\ \A j \in 1..E :
                    IsWall(SubSeq(v, 6 * T + 6 * j - 5, 6 * T + 6 * j),
                           EdgesOfOutline[j][1], EdgesOfOutline[j][2])

\* An outline of two contours has been extruded into a non-indexed mesh.
C23_Witness ==
    /\ MeshRastered(FALSE, FALSE)
    /\ Len(RasteredOutline.contours) = 2
    /\ Len(TrianglesOfOutline) >= 2

\* C24: with N points, T triangles and E contour edges, the extruded indexed
\* mesh has 2N vertices (point p at z = +0.5 at index p and at z = -0.5 at
\* index p + N) and 6T + 6E indices: per triangle i0, i1, i2, i2+N, i1+N,
\* i0+N, then per contour edge (a, b) the triangles (a, b, b+N) and
\* (a+N, a, b+N).  The flat indexed mesh has N vertices at z = 0 and the 3T
\* triangle indices unchanged.
C24_IndexedMeshLayout ==
    LET m == raster[1].r.val
        tri == TrianglesOfOutline
        T == Len(tri)
        E == Len(EdgesOfOutline)
        N == Len(RasteredOutline.points)
    IN  /\ MeshRastered(TRUE, TRUE)
           => /\ Len(m.vertices) = N
              /\ \A p \in 0..(N - 1) : m.vertices[p + 1] = PointAt(p, 0)
              /\ m.indices = Flatten([k \in 1..T |-> tri[k]])
        /\ MeshRastered(FALSE, TRUE)
           => /\ Len(m.vertices) = 2 * N
              /\ \A p \in 0..(N - 1) :
                    /\ m.vertices[p + 1] = PointAt(p, Half)
                    /\ m.vertices[p + N + 1] = PointAt(p, -Half)
              /\ m.indices
                   = Flatten([k \in 1..T |->
                        <<tri[k][1], tri[k][2], tri[k][3],
                          tri[k][3] + N, tri[k][2] + N, tri[k][1] + N>>])
                     \o Flatten([j \in 1..E |->
                        LET a == EdgesOfOutline[j][1]
                            b == EdgesOfOutline[j][2]
                        IN  <<a, b, b + N, a + N, a, b + N>>])

\* An outline of two contours has been extruded into an indexed mesh.
C24_Witness ==
    /\ MeshRastered(FALSE, TRUE)
    /\ Len(RasteredOutline.contours) = 2
    /\ Len(TrianglesOfOutline) >= 2

\* The indexed mesh with every index replaced by the vertex it refers to.
Resolved(m) == [i \in 1..Len(m.indices) |-> m.vertices[m.indices[i] + 1]]

\* The non-indexed mesh of the outline the indexed mesh was made of.
NonIndexedOf(flat) == raster_to_mesh(RasteredOutline, flat).val

\* C29: the indexed and the non-indexed mesh of the same outline, flat or
\* extruded, hold the same triangles: replacing each index by the vertex it
\* refers to yields exactly the vertex sequence of the non-indexed mesh.
C29_IndexedResolvesToNonIndexed ==
    \A flat \in BOOLEAN :
        MeshRastered(flat, TRUE)
        => Resolved(raster[1].r.val) = NonIndexedOf(flat)

\* C29, amended: the flat meshes, and the caps of the extruded meshes, agree
\* vertex by vertex.  The walls do not: for the contour edge (a, b) the
\* indexed mesh holds (a+, b+, b-), (a-, a+, b-) and the non-indexed mesh
\* (a+, b+, a-), (b-, a-, b+), + and - being z = +0.5 and z = -0.5: the same
\* rectangle in the same winding, split along the other diagonal.
C29_SameCapsOtherDiagonal ==
    LET T == Len(TrianglesOfOutline)
        E == Len(EdgesOfOutline)
        ix == Resolved(raster[1].r.val)
    IN  /\ MeshRastered(TRUE, TRUE) => ix = NonIndexedOf(TRUE)
        /\ MeshRastered(FALSE, TRUE)
           => /\ Len(ix) = 6 * T + 6 * E
              /\ Len(NonIndexedOf(FALSE)) = 6 * T + 6 * E
              /\ SubSeq(ix, 1, 6 * T) = SubSeq(NonIndexedOf(FALSE), 1, 6 * T)
              /\ \A j \in 1..E :
                    LET a == EdgesOfOutline[j][1]
                        b == EdgesOfOutline[j][2]
                        from == 6 * T + 6 * j - 5
                    IN  /\ SubSeq(ix, from, from + 5)
                             = <<PointAt(a, Half), PointAt(b, Half), PointAt(b, -Half),
                                 PointAt(a, -Half), PointAt(a, Half), PointAt(b, -Half)>>
                        /\ SubSeq(NonIndexedOf(FALSE), from, from + 5)
                             = <<PointAt(a, Half), PointAt(b, Half), PointAt(a, -Half),
                                 PointAt(b, -Half), PointAt(a, -Half), PointAt(b, Half)>>

\* An outline drawn with curves has been extruded into an indexed mesh whose
\* walls differ from those of the non-indexed mesh.
C29_Witness ==
    /\ MeshRastered(FALSE, TRUE)
    /\ Len(RasteredOutline.points) >= 5
    /\ Resolved(raster[1].r.val) # NonIndexedOf(FALSE)

\* The calls so far end with move_to, drawing calls and the close of that
\* contour.
ContourDrawnAndClosed ==
    /\ builder # Panicked
    /\ LastMove > 0
    /\ LastCall.t = "close"
    /\ SinceMove # <<>>
    /\ \A i \in 1..Len(SinceMove) : SinceMove[i].t \notin {"close", "move_to"}

\* The points emitted for the contour: what the move_to and the drawing calls
\* appended to the point list.
EmittedForContour ==
    {BuilderBefore.points[i] :
        i \in (Len(BuilderAtMove.points) + 1)..Len(BuilderBefore.points)}

\* The points the contour refers to after the close.
KeptByContour ==
    LET contour == builder.contours[Len(builder.contours)]
    IN  {builder.points[contour[i] + 1] :
            i \in {k \in 1..Len(contour) :
                      contour[k] + 1 \in 1..Len(builder.points)}}

\* C26: close never discards a point that differs from the start point of
\* the contour: after move_to, drawing calls and close, every point emitted
\* for the contour is in the point list and referenced by the contour.
C26_CloseKeepsDistinctPoints ==
    ContourDrawnAndClosed => EmittedForContour \subseteq KeptByContour

\* The builder after the first i calls.
BuilderAfter(i) == DrawAll(BuilderNew, quality, SubSeq(font_calls, 1, i))

\* The calls start with move_to and none has panicked.
StartsWithMoveTo ==
    /\ builder # Panicked
    /\ font_calls # <<>>
    /\ font_calls[1].t = "move_to"

\* Every close was applied to a contour holding at least two points.
ClosesHoldTwoPoints ==
    \A i \in 1..Len(font_calls) :
        font_calls[i].t = "close"
        => LET contours == BuilderAfter(i - 1).contours
               contour == contours[Len(contours)]
           IN  Cardinality({contour[k] : k \in 1..Len(contour)}) >= 2

\* Every close comes after a line_to, quad_to or curve_to made since the last
\* move_to or close.
ClosesFollowDrawing ==
    \A i \in 1..Len(font_calls) :
        font_calls[i].t = "close"
        => /\ i > 1
           /\ font_calls[i - 1].t \in {"line_to", "quad_to", "curve_to"}

\* The index counter is the number of stored points, every index of every
\* contour is below it, and no index belongs to two contours.
BuilderConsistent ==
    /\ builder.index = Len(builder.points)
    /\ \A k \in 1..Len(builder.contours) : \A i \in 1..Len(builder.contours[k]) :
          builder.contours[k][i] \in 0..(Len(builder.points) - 1)
    /\ \A k, l \in 1..Len(builder.contours) :
          k # l => {builder.contours[k][i] : i \in 1..Len(builder.contours[k])}
                   \cap {builder.contours[l][i] : i \in 1..Len(builder.contours[l])}
                   = {}

ContributedBy(k) == indexed_cache[Key(call.text[k], call.flat)]

\* The number of vertices the characters before the k-th appended to the
\* section.
RECURSIVE VerticesBefore(_)
VerticesBefore(k) ==
    IF k = 1 THEN 0
    ELSE VerticesBefore(k - 1) + Len(ContributedBy(k - 1).vertices)

\* C25: in an indexed section the indices of each glyph are offset by the
\* number of vertices the glyphs before it appended, so that every index of a
\* glyph refers to a vertex of that glyph, also for glyphs injected with
\* precache_custom_glyph and glyphs with vertices no index refers to.
C25_IndicesOffsetByVertexCount ==
    (IndexedSectionReturned /\ use_cache)
    => result.val.indices
          = Flatten([k \in 1..Len(call.text) |->
                [i \in 1..Len(ContributedBy(k).indices) |->
                    ContributedBy(k).indices[i] + VerticesBefore(k)]])

\* Every character of the calls, the underscore among them.
AllChars == Chars \cup LayoutChars \cup FaultChars \cup FaultCustomChars

KeysInjective ==
    \A c1, c2 \in AllChars : \A f1, f2 \in BOOLEAN :
        Key(c1, f1) = Key(c2, f2) => (c1 = c2 /\ f1 = f2)

\* The call c writes the indexed map (and not the other one).
WritesIndexed(c) ==
    IF c.op = "precache_custom_glyph" THEN IsSome(Unwrap(c.mesh).indices)
    ELSE c.indexed

\* The maps agree on every key but `key`.
SameBut(old, new, key) ==
    /\ (DOMAIN old) \ {key} = (DOMAIN new) \ {key}
    /\ \A k \in (DOMAIN old) \ {key} : new[k] = old[k]

\* C27: the key mapping is injective, also for the character '_', and the
\* four slots of a character are independent: a call that inserts or
\* overwrites the entry of (c, flat) in one map neither creates nor changes
\* the entry of (c, not flat) in that map, nor any entry of the other map.
C27_SlotsIndependent ==
    [][/\ KeysInjective
       /\ call'.op \in GlyphOps \cup {"precache_custom_glyph"}
          => IF WritesIndexed(call')
             THEN /\ SameBut(indexed_cache, indexed_cache',
                             Key(call'.glyph, call'.flat))
                  /\ Key(call'.glyph, ~call'.flat) \in DOMAIN indexed_cache
                     => /\ Key(call'.glyph, ~call'.flat) \in DOMAIN indexed_cache'
                        /\ indexed_cache'[Key(call'.glyph, ~call'.flat)]
                             = indexed_cache[Key(call'.glyph, ~call'.flat)]
                  /\ cache' = cache
             ELSE /\ SameBut(cache, cache', Key(call'.glyph, call'.flat))
                  /\ Key(call'.glyph, ~call'.flat) \in DOMAIN cache
                     => /\ Key(call'.glyph, ~call'.flat) \in DOMAIN cache'
                        /\ cache'[Key(call'.glyph, ~call'.flat)]
                             = cache[Key(call'.glyph, ~call'.flat)]
                  /\ indexed_cache' = indexed_cache]_vars

\* The flat slot of '_' has been overwritten with a hand-made mesh while the
\* extruded slot of '_' in the same map held the glyph of the font.
C27_Witness ==
    /\ call.op = "precache_custom_glyph" /\ call.glyph = "_" /\ call.flat
    /\ result.ok
    /\ Key("_", TRUE) \in DOMAIN cache
    /\ Key("_", FALSE) \in DOMAIN cache
    /\ cache[Key("_", TRUE)] # cache[Key("_", FALSE)]

\* The calls that generate glyphs from the font.
FontOps == GenOps \cup {"precache_glyphs"}

\* The outline of the character's glyph is closed, but the triangulator
\* refuses it.
TriangulatorFails(c) ==
    /\ ~HasOpenContour(c)
    /\ ~Rastered[glyph_id_of_char(c)][TRUE].ok

\* C28: a glyph whose generation fails, for an open contour or a failure of
\* the triangulator, is never cached: when generate_glyph, generate_section
\* or precache_glyphs returns the error of character c, no map holds an entry
\* of c it did not hold before, and the same request made again fails again
\* with that error.
C28_FailedGlyphNotCached ==
    [][/\ (call'.op \in FontOps /\ ~result'.ok)
          => /\ trace' # <<>>
             /\ trace'[Len(trace')].how = "failed"
             /\ \A flat \in BOOLEAN :
                   LET key == Key(trace'[Len(trace')].glyph, flat)
                   IN  /\ key \in DOMAIN cache' => key \in DOMAIN cache
                       /\ key \in DOMAIN indexed_cache'
                          => key \in DOMAIN indexed_cache
       /\ (call.op \in FontOps /\ ~result.ok /\ call' = call)
          => result' = result]_vars

\* precache_glyphs("AI") has failed a second time for the glyph of 'I', which
\* the triangulator refuses: 'A' came from the map, 'I' is in neither map.
C28_Witness ==
    /\ call.op = "precache_glyphs" /\ call.text = <<"A", "I">>
    /\ TriangulatorFails("I")
    /\ result = Err("GlyphTriangulationError")
    /\ trace[1].glyph = "A" /\ trace[1].how = "hit"
    /\ trace[Len(trace)].glyph = "I" /\ trace[Len(trace)].how = "failed"
    /\ \A flat \in BOOLEAN : /\ Key("I", flat) \notin DOMAIN cache
                             /\ Key("I", flat) \notin DOMAIN indexed_cache

====
